---------------------------- MODULE Spec2Model ----------------------------
(***************************************************************************)
(* Keyword extraction and hierarchy construction of the SEO analysis API   *)
(* (aeo-api/app/extract.py with the helpers of python-api/app/utils.py).   *)
(*                                                                         *)
(* Texts are TLA+ strings, handled character by character as Python does   *)
(* (str.lower, str.split, str.count, the `in` substring test).             *)
(*                                                                         *)
(* A page's readable text is a string followed by `pad` further numeric    *)
(* tokens ("7"): such tokens hold no letter, so they add to the word       *)
(* count, the tokenizer drops them and no occurrence of an alphabetic      *)
(* candidate can touch them.  A text is therefore a record [s, pad].       *)
(*                                                                         *)
(* Floats are fixed point: scores before rounding in 1/1000000, rounded    *)
(* scores in 1/100 (round(x, 2)), multipliers in 1/10000 or 1/10.          *)
(***************************************************************************)
EXTENDS Integers, Sequences, FiniteSets, TLC

VARIABLES
    pc,          \* position in extract_keywords_from_html
    page,        \* what the HTML parsers give for `html`: title, headings, body, pad
    url,         \* argument url
    final_url,   \* argument final_url
    lang_guess,  \* argument lang_guess
    hash_seed,   \* the process's string-hash seed: decides the order of list(set(..))
    signals,     \* extract_content_signals(html, final_url or url)
    language,    \* preprocess_text(..)[1]
    all_text,    \* the combined text
    candidates,  \* generate_candidates(all_text)
    scored,      \* score_keywords(..)
    validated_keywords,
    top_keywords,
    parent,      \* the parent keyword, or NoParent
    via_fallback,\* TRUE when the caller picked the parent itself
    other_keywords,
    nodes,       \* the TreeNode objects made so far, by object id
    url_root,    \* object id of the root node (0: none yet)
    sub_parents, \* object ids returned by create_sub_parents
    result,      \* the returned dict, or NoResult
    call,        \* a single call of one of the functions: its name and arguments
    ret,         \* what that call returned
    req_pc,      \* main.extract_html: where each request's coroutine stands
    permits,     \* _SEMAPHORE's counter
    waiters,     \* the coroutines waiting in _SEMAPHORE.acquire(), first come first
    pool_pending,\* tasks submitted to _EXECUTOR that no worker has taken yet
    pool_running,\* tasks running in a worker process
    outcome      \* the status codes the handler has answered with

pipeline_vars ==
    <<pc, page, url, final_url, lang_guess, hash_seed, signals, language,
      all_text, candidates, scored, validated_keywords, top_keywords,
      parent, via_fallback, other_keywords, nodes, url_root, sub_parents,
      result>>

call_vars == <<call, ret>>

handler_vars == <<req_pc, permits, waiters, pool_pending, pool_running, outcome>>

vars == <<pipeline_vars, call_vars, handler_vars>>

----------------------------------------------------------------------------
(* Python strings *)

\* Python's None
None == [none |-> TRUE]

Min(S) == CHOOSE m \in S : \A o \in S : m <= o

CharAt(s, i) == SubSeq(s, i, i)

LowerLetters ==
    {"a","b","c","d","e","f","g","h","i","j","k","l","m",
     "n","o","p","q","r","s","t","u","v","w","x","y","z"}

UpperToLower ==
    [A |-> "a", B |-> "b", C |-> "c", D |-> "d", E |-> "e", F |-> "f", G |-> "g",
     H |-> "h", I |-> "i", J |-> "j", K |-> "k", L |-> "l", M |-> "m", N |-> "n",
     O |-> "o", P |-> "p", Q |-> "q", R |-> "r", S |-> "s", T |-> "t", U |-> "u",
     V |-> "v", W |-> "w", X |-> "x", Y |-> "y", Z |-> "z"]

LowerChar(c) == IF c \in DOMAIN UpperToLower THEN UpperToLower[c] ELSE c

\* str.lower(), halving the string to keep the recursion shallow
RECURSIVE Lower(_)
Lower(s) ==
    IF Len(s) = 0 THEN ""
    ELSE IF Len(s) = 1 THEN LowerChar(s)
    ELSE LET h == Len(s) \div 2
         IN Lower(SubSeq(s, 1, h)) \o Lower(SubSeq(s, h + 1, Len(s)))

\* str.isalpha(): non-empty and letters only
IsAlpha(s) ==
    /\ s # ""
    /\ \A i \in 1..Len(s) : CharAt(s, i) \in LowerLetters \cup DOMAIN UpperToLower

\* needle in hay
Contains(hay, needle) ==
    \E i \in 1..(Len(hay) - Len(needle) + 1) :
        SubSeq(hay, i, i + Len(needle) - 1) = needle

\* hay.count(needle) for a non-empty needle: non-overlapping, leftmost first
RECURSIVE CountFrom(_, _, _)
CountFrom(hay, needle, from) ==
    LET M == {i \in from..(Len(hay) - Len(needle) + 1) :
                 SubSeq(hay, i, i + Len(needle) - 1) = needle}
    IN IF M = {} THEN 0 ELSE 1 + CountFrom(hay, needle, Min(M) + Len(needle))

Count(hay, needle) == CountFrom(hay, needle, 1)

\* the k-th smallest element of a set of numbers
Nth(S, k) == CHOOSE i \in S : Cardinality({j \in S : j <= i}) = k

\* str.split(): the maximal runs of non-space characters
Split(s) ==
    LET starts == {i \in 1..Len(s) :
                     CharAt(s, i) # " " /\ (i = 1 \/ CharAt(s, i - 1) = " ")}
        ends == {i \in 1..Len(s) :
                     CharAt(s, i) # " " /\ (i = Len(s) \/ CharAt(s, i + 1) = " ")}
    IN [k \in 1..Cardinality(starts) |-> SubSeq(s, Nth(starts, k), Nth(ends, k))]

\* s.split(sep) for a one-character sep: empty pieces are kept
SplitOn(s, sep) ==
    LET hits == {j \in 1..Len(s) : CharAt(s, j) = sep}
        cut(k) == IF k = 0 THEN 0
                  ELSE IF k > Cardinality(hits) THEN Len(s) + 1
                  ELSE Nth(hits, k)
    IN [k \in 1..(Cardinality(hits) + 1) |-> SubSeq(s, cut(k - 1) + 1, cut(k) - 1)]

\* sep.join(parts)
RECURSIVE Join(_, _)
Join(sep, parts) ==
    IF parts = <<>> THEN ""
    ELSE IF Len(parts) = 1 THEN parts[1]
    ELSE parts[1] \o sep \o Join(sep, Tail(parts))

\* str.strip() of spaces
Strip(s) ==
    LET solid == {i \in 1..Len(s) : CharAt(s, i) # " "}
    IN IF solid = {} THEN ""
       ELSE SubSeq(s, Min(solid), CHOOSE i \in solid : \A j \in solid : j <= i)

\* replace(" ", "")
RECURSIVE RemoveSpaces(_)
RemoveSpaces(s) ==
    IF Len(s) = 0 THEN ""
    ELSE IF Len(s) = 1 THEN (IF s = " " THEN "" ELSE s)
    ELSE LET h == Len(s) \div 2
         IN RemoveSpaces(SubSeq(s, 1, h)) \o RemoveSpaces(SubSeq(s, h + 1, Len(s)))

Range(seq) == {seq[i] : i \in 1..Len(seq)}

\* the elements of seq at the indexes idx, in order (a list comprehension)
SelectSeqIdx(seq, idx) ==
    LET at == idx \cap (1..Len(seq))
    IN [k \in 1..Cardinality(at) |-> seq[Nth(at, k)]]

Reverse(seq) == [i \in 1..Len(seq) |-> seq[Len(seq) + 1 - i]]

----------------------------------------------------------------------------
(* The rule dictionaries of the code, copied whole *)

\* python-api/app/utils.py lines 12-42
TEMPORAL_MONTHS ==
    {"apr", "april", "aug", "august", "dec", "december", "feb", "february",
     "jan", "january", "jul", "july", "jun", "june", "mar", "march", "may",
     "nov", "november", "oct", "october", "sep", "sept", "september"}

TEMPORAL_DAYS ==
    {"fri", "friday", "mon", "monday", "sat", "saturday", "sun", "sunday",
     "thu", "thursday", "tue", "tuesday", "wed", "wednesday"}

SECTION_TERMS ==
    {"404", "about", "about-us", "account", "all-events", "archives",
     "author", "blog", "career", "careers", "category", "conditions",
     "contact", "contact-us", "cookie", "cookies", "csr", "esg", "events",
     "faq", "help", "home", "homepage", "investors", "jobs", "login", "news",
     "newsletter", "policy", "press", "press-release", "privacy", "profile",
     "release", "search", "settings", "signup", "sitemap", "subscribe",
     "support", "tag", "team", "terms", "terms-and-conditions"}

GENERIC_BASE_TERMS ==
    {"app", "apps", "article", "blog", "career", "case", "case-study",
     "center", "companies", "company", "condition", "conditions", "download",
     "estate", "faq", "feature", "features", "global", "guide", "help",
     "india", "industry", "info", "information", "international", "latest",
     "news", "overview", "page", "pages", "platform", "policy", "post",
     "posts", "press", "product", "products", "q&a", "qna", "real",
     "release", "report", "service", "services", "software", "solution",
     "solutions", "study", "summary", "support", "team", "term", "terms",
     "tool", "tools", "update"}

ENERGY_TOPICAL_TOKENS ==
    {"battery", "decarbonization", "efficiency", "energy", "grid",
     "inverter", "net-metering", "offgrid", "on-grid", "panel", "panels",
     "photovoltaic", "pv", "renewable", "rooftop", "solar", "storage",
     "subsidies", "subsidy", "surya", "yojana"}

\* create_sub_parents, aeo-api/app/extract.py lines 26-32
theme_ai_related ==
    <<"ai", "chatbot", "automation", "intelligence", "machine">>

theme_real_estate ==
    <<"real", "estate", "property", "housing", "investment">>

theme_social_media ==
    <<"facebook", "whatsapp", "social", "messaging", "chat">>

theme_business ==
    <<"business", "industry", "service", "solution", "client">>

theme_technology ==
    <<"technology", "tech", "digital", "online", "platform">>

\* generate_candidates, aeo-api/app/extract.py lines 170-174
stop_phrases ==
    {"about us", "all rights reserved", "click here", "contact us",
     "cookie policy", "find out", "get started", "home page", "learn more",
     "main page", "privacy policy", "read more", "site map", "terms service"}

\* generate_candidates, aeo-api/app/extract.py lines 177-184
low_value_words ==
    {"about", "all", "asp", "click", "com", "contact", "cookie", "copyright",
     "css", "edu", "fairly", "few", "find", "get", "here", "home", "html",
     "http", "internet", "javascript", "learn", "main", "many", "map",
     "more", "most", "net", "online", "org", "page", "php", "pretty",
     "privacy", "quite", "rather", "read", "really", "reserved", "rights",
     "site", "some", "somewhat", "start", "terms", "very", "web", "website",
     "www"}

\* generate_candidates, aeo-api/app/extract.py lines 209-209
common_words ==
    {"a", "an", "and", "at", "but", "by", "for", "in", "of", "on", "or",
     "the", "to", "with"}

\* calculate_semantic_quality, aeo-api/app/extract.py lines 230-236
high_value_indicators ==
    {"advanced", "advantages", "beginner", "benefits", "best", "buy",
     "comparison", "cons", "cost", "deal", "disadvantages", "discount",
     "expert", "features", "free", "guide", "how to", "methods", "order",
     "premium", "price", "professional", "pros", "purchase", "review",
     "sale", "secrets", "starter", "strategies", "techniques", "tips", "top",
     "tricks", "tutorial", "vs", "what is"}

\* calculate_semantic_quality, aeo-api/app/extract.py lines 239-243
low_value_indicators ==
    {"asp", "begin", "click", "com", "css", "edu", "find", "get", "here",
     "html", "http", "internet", "javascript", "learn", "more", "net",
     "online", "org", "page", "php", "read", "site", "start", "web",
     "website", "www"}

\* validate_keyword_quality, aeo-api/app/extract.py lines 287-291
generic_patterns ==
    <<"click here", "read more", "learn more", "find out", "get started",
     "contact us", "about us", "home page", "main page", "site map",
     "privacy policy", "terms service", "cookie policy">>

\* validate_keyword_quality, aeo-api/app/extract.py lines 298-302
common_single_words ==
    {"about", "click", "contact", "find", "get", "here", "home", "internet",
     "learn", "main", "map", "more", "online", "page", "privacy", "read",
     "site", "start", "terms", "web", "website", "www"}

\* infer_intent, python-api/app/utils.py lines 116-116
transactional_words ==
    <<"buy", "price", "deal", "coupon", "order", "best", "cheap", "shop",
     "store">>

\* infer_intent, python-api/app/utils.py lines 117-117
informational_words ==
    <<"how", "what", "guide", "tutorial", "vs", "review", "learn", "tips",
     "why", "when">>

\* infer_intent, python-api/app/utils.py lines 118-118
navigational_words ==
    <<"login", "signup", "brand", "home", "contact", "about">>

\* calculate_semantic_quality_for_parent, python-api/app/utils.py lines 240-245
parent_indicators ==
    {"advanced", "advantages", "beginner", "benefits", "best", "buy",
     "comparison", "cost", "deal", "discount", "expert", "features", "free",
     "guide", "how to", "methods", "premium", "price", "professional",
     "purchase", "review", "sale", "tips", "top", "tutorial", "vs", "what is"}

----------------------------------------------------------------------------
(* Arithmetic on fixed-point numbers *)

Max(a, b) == IF a >= b THEN a ELSE b

\* floor(a * b / d) for a, b >= 0, without leaving 32 bits
MulDiv(a, b, d) == (a \div d) * b + ((a % d) * b) \div d

\* freq ** 0.8 in 1/1000000, for freq = 1 .. 24
Pow08Table ==
    <<1000000, 1741101, 2408225, 3031433, 3623898, 4192963,
      4743276, 5278032, 5799546, 6309573, 6809483, 7300372,
      7783137, 8258524, 8727161, 9189587, 9646264, 10097596,
      10543939, 10985605, 11422875, 11855999, 12285201, 12710686>>

Pow08(freq) == Pow08Table[freq]

----------------------------------------------------------------------------
(* The tokenizer: utils.tokenize_phrase over the spaCy pipeline *)

\* the English stop words of the pipeline that the pages below can hold
STOP_WORDS ==
    {"the", "a", "an", "and", "or", "but", "in", "on", "at", "to", "for", "of",
     "with", "by", "how", "what", "why", "when", "where", "which", "is", "are",
     "us", "here", "more", "all", "get", "about", "top", "very", "really"}

\* t.lemma_ of the words the pages below can hold (other words: themselves)
LemmaTable == [panels |-> "panel", tools |-> "tool", turbines |-> "turbine"]

Lemma(w) == IF w \in DOMAIN LemmaTable THEN LemmaTable[w] ELSE w

\* [t.lemma_.lower() for t in doc if t.is_alpha and not t.is_stop and len(t) > 1]
\* t.is_alpha and not t.is_stop and len(t) > 1
TokenKept(t) == IsAlpha(t) /\ Lower(t) \notin STOP_WORDS /\ Len(t) > 1

\* the tokens of doc the comprehension keeps
KeptTokens(doc) == SelectSeqIdx(doc, {i \in 1..Len(doc) : TokenKept(doc[i])})

\* t.lemma_.lower() of each kept token
LemmasOf(kept) == [i \in 1..Len(kept) |-> Lower(Lemma(Lower(kept[i])))]

tokenize_phrase(phrase) == LemmasOf(KeptTokens(Split(phrase)))

----------------------------------------------------------------------------
(* utils.py helpers *)

in_text(needle, haystack) == Contains(Lower(haystack), Lower(needle))

is_temporal_token(token) == token \in TEMPORAL_MONTHS \/ token \in TEMPORAL_DAYS

is_section_token(token) == token \in SECTION_TERMS

is_generic_base(token) == token \in GENERIC_BASE_TERMS

has_energy_topical(tokens) == tokens \cap ENERGY_TOPICAL_TOKENS # {}

\* calculate_prominence_boost without the title multiplier
BoostIgnoringTitle(keyword, title, h1_h2_text, url_tokens) ==
    LET kw_lower == Lower(keyword)
        h == IF in_text(kw_lower, h1_h2_text) THEN 18 ELSE 10
        u == IF in_text(kw_lower, url_tokens) THEN 15 ELSE 10
    IN (h * u) \div 10

\* calculate_prominence_boost with the multipliers added to 1.0
BoostBySum(keyword, title, h1_h2_text, url_tokens) ==
    LET kw_lower == Lower(keyword)
        t == IF in_text(kw_lower, title) THEN 20 ELSE 0
        h == IF in_text(kw_lower, h1_h2_text) THEN 8 ELSE 0
        u == IF in_text(kw_lower, url_tokens) THEN 5 ELSE 0
    IN 10 + t + h + u

\* the boost in 1/10: 1.0, x3.0 in the title, x1.8 in H1/H2, x1.5 in the URL tokens
calculate_prominence_boost(keyword, title, h1_h2_text, url_tokens) ==
    LET kw_lower == Lower(keyword)
        t == IF in_text(kw_lower, title) THEN 30 ELSE 10
        h == IF in_text(kw_lower, h1_h2_text) THEN 18 ELSE 10
        u == IF in_text(kw_lower, url_tokens) THEN 15 ELSE 10
    IN (t * h * u) \div 100

AnyIn(patterns, text) == \E i \in 1..Len(patterns) : Contains(text, patterns[i])

\* infer_intent with the informational cues looked up first
InformationalFirst(keyword) ==
    LET kw_lower == Lower(keyword)
    IN IF AnyIn(informational_words, kw_lower) THEN "informational"
       ELSE IF AnyIn(transactional_words, kw_lower) THEN "transactional"
       ELSE IF AnyIn(navigational_words, kw_lower) THEN "navigational"
       ELSE "informational"

infer_intent(keyword) ==
    LET kw_lower == Lower(keyword)
    IN IF AnyIn(transactional_words, kw_lower) THEN "transactional"
       ELSE IF AnyIn(informational_words, kw_lower) THEN "informational"
       ELSE IF AnyIn(navigational_words, kw_lower) THEN "navigational"
       ELSE "informational"

----------------------------------------------------------------------------
(* extract.generate_candidates *)

HashSeeds == {"fwd", "rev"}

\* seq without its repeated elements, first occurrences kept
Dedup(seq) ==
    SelectSeqIdx(seq, {i \in 1..Len(seq) : \A j \in 1..(i - 1) : seq[j] # seq[i]})

\* list(set(items)): the distinct items, in an order the hash seed decides
ListOfSet(items, seed) ==
    IF seed = "fwd" THEN Dedup(items) ELSE Reverse(Dedup(items))

CountCommon(words) == Cardinality({i \in 1..Len(words) : words[i] \in common_words})

\* CandidateFilter without the check of the length
FilterOfAnyLength(candidate, candidate_lower, words, n) ==
    /\ IsAlpha(RemoveSpaces(candidate))
    /\ candidate_lower \notin stop_phrases
    /\ ~(n = 1 /\ candidate_lower \in low_value_words)
    /\ ~(n >= 2 /\ \A i \in 1..Len(words) : words[i] \in common_words)
    /\ ~(n >= 3 /\ CountCommon(words) * 10 >= Len(words) * 6)

\* the filter of one candidate (lines 186-220): TRUE when it is kept
CandidateFilter(candidate, candidate_lower, words, n) ==
    /\ ~(Len(candidate) < 3 \/ Len(candidate) > 50)
    /\ IsAlpha(RemoveSpaces(candidate))
    /\ candidate_lower \notin stop_phrases
    /\ ~(n = 1 /\ candidate_lower \in low_value_words)
    /\ ~(n >= 2 /\ \A i \in 1..Len(words) : words[i] \in common_words)
    /\ ~(n >= 3 /\ CountCommon(words) * 10 >= Len(words) * 6)

CandidateKept(candidate) ==
    CandidateFilter(candidate, Lower(candidate), Split(Lower(candidate)),
                    Len(Split(candidate)))

\* lines 166-178: the unigrams, then the bigrams, then the trigrams
Ngrams(tokens) ==
    tokens
    \o [i \in 1..Max(Len(tokens) - 1, 0) |-> tokens[i] \o " " \o tokens[i + 1]]
    \o [i \in 1..Max(Len(tokens) - 2, 0) |->
           tokens[i] \o " " \o tokens[i + 1] \o " " \o tokens[i + 2]]

\* lines 184-221: the loop that filters the candidates
FilteredCandidates(cands) ==
    SelectSeqIdx(cands, {i \in 1..Len(cands) : CandidateKept(cands[i])})

generate_candidates(text, seed) ==
    FilteredCandidates(ListOfSet(Ngrams(tokenize_phrase(text.s)), seed))

----------------------------------------------------------------------------
(* extract.calculate_semantic_quality, in 1/10000 *)

semantic_patterns == <<"how to", "what is", "best way", "top 10", "vs">>

RECURSIVE QualityOfWords(_, _)
QualityOfWords(words, q) ==
    IF words = <<>> THEN q
    ELSE QualityOfWords(Tail(words),
            IF Head(words) \in high_value_indicators THEN (q * 12) \div 10
            ELSE IF Head(words) \in low_value_indicators THEN (q * 9) \div 10
            ELSE q)

\* quality_score *= num / 10 when cond holds
Scaled(q, cond, num) == IF cond THEN (q * num) \div 10 ELSE q

\* max(lo, min(q, hi))
Clamp(lo, q, hi) == Max(lo, IF q > hi THEN hi ELSE q)

SemanticQualityOf(keyword_lower, words) ==
    Clamp(1000,
          Scaled(Scaled(QualityOfWords(words, 10000),
                        AnyIn(semantic_patterns, keyword_lower), 12),
                 CountCommon(words) * 10 > Len(words) * 5, 8),
          20000)

calculate_semantic_quality(keyword) ==
    SemanticQualityOf(Lower(keyword), Split(Lower(keyword)))

----------------------------------------------------------------------------
(* extract.score_keywords *)

\* len(text.split()) of a padded text
WordCount(text) == Len(Split(text.s)) + text.pad

\* MinFreqThreshold without the share of the text: one occurrence always suffices
MinFreqThresholdOfOne(text_length) == 1

\* max(1, int(text_length * 0.0005))
MinFreqThreshold(text_length) == Max(1, (text_length * 5) \div 10000)

\* DensityTooHigh without the ceiling: no density is too high
DensityNeverTooHigh(freq, words, text_length) == FALSE

\* keyword_density > 0.05, with keyword_density = freq * words / text_length
DensityTooHigh(freq, words, text_length) == freq * words * 20 > text_length

LengthBonus(word_count) ==
    CASE word_count = 1 -> 5
      [] word_count = 2 -> 10
      [] word_count = 3 -> 12
      [] word_count = 4 -> 10
      [] OTHER -> 7

\* the density penalty as a fraction of 10 * text_length:
\* 1.0, or 1.0 - (density - 0.02) * 5 above 2%
DensityPenalty(freq, words, text_length) ==
    IF freq * words * 50 > text_length
    THEN 11 * text_length - 50 * freq * words
    ELSE 10 * text_length

\* base_score * boost * length_bonus * density_penalty * semantic_score, in 1/1000000
FinalScore(freq, word_count, text_length, boost, semantic_score) ==
    LET s1 == (Pow08(freq) * boost) \div 10
        s2 == (s1 * LengthBonus(word_count)) \div 10
        s3 == MulDiv(s2, DensityPenalty(freq, word_count, text_length), 10 * text_length)
    IN MulDiv(s3, semantic_score, 10000)

\* round(x, 2) of x in 1/1000000, in 1/100
Round2(x) == (x + 5000) \div 10000

\* the dict appended for a candidate that passed (lines 372-379)
ScoredKeyword(candidate, freq, text_length, boost, semantic_score) ==
    LET word_count == Len(Split(candidate))
    IN [text |-> candidate,
        score |-> Round2(FinalScore(freq, word_count, text_length, boost, semantic_score)),
        freq |-> freq,
        density |-> (freq * word_count * 20000 + text_length) \div (2 * text_length),
        boost |-> boost * 10,
        semantic_score |-> (semantic_score + 50) \div 100]

\* ScoreIsMeaningful accepting any positive score
ScoreIsPositive(final_score) == final_score > 0

\* final_score >= 0.5
ScoreIsMeaningful(final_score) == final_score >= 500000

\* SortByScoreDesc without the sort: the keywords stay in candidate order
LeftUnsorted(kws) == kws

\* list.sort(key=score, reverse=True): stable, so equal scores keep their order
SortByScoreDesc(kws) ==
    LET place(i) == 1 + Cardinality({j \in 1..Len(kws) :
                          \/ kws[j].score > kws[i].score
                          \/ kws[j].score = kws[i].score /\ j < i})
    IN [k \in 1..Len(kws) |-> kws[CHOOSE i \in 1..Len(kws) : place(i) = k]]

\* the filters of the scoring loop (lines 326-336 and 371)
PassesFilters(candidate, freq, text_length, boost, semantic_score) ==
    /\ freq > 0
    /\ ~(freq < MinFreqThreshold(text_length))
    /\ ~DensityTooHigh(freq, Len(Split(candidate)), text_length)
    /\ ScoreIsMeaningful(FinalScore(freq, Len(Split(candidate)), text_length,
                                    boost, semantic_score))

\* one round of the scoring loop: the dict appended, or None when the candidate is skipped
ScoreCandidate(candidate, freq, text_length, boost, semantic_score) ==
    IF PassesFilters(candidate, freq, text_length, boost, semantic_score)
    THEN ScoredKeyword(candidate, freq, text_length, boost, semantic_score)
    ELSE None

\* the rounds of the loop that appended a dict, in order
Appended(rounds) == SelectSeqIdx(rounds, {i \in 1..Len(rounds) : rounds[i] # None})

\* lines 312-379, before the sort
ScoringLoop(cands, text_lower, text_length, title, h1_h2_text, url_tokens) ==
    Appended([i \in 1..Len(cands) |->
                 ScoreCandidate(cands[i], Count(text_lower, cands[i]), text_length,
                                calculate_prominence_boost(cands[i], title, h1_h2_text,
                                                           url_tokens),
                                calculate_semantic_quality(cands[i]))])

score_keywords(cands, text, title, h1_h2_text, url_tokens) ==
    SortByScoreDesc(ScoringLoop(cands, Lower(text.s), WordCount(text), title,
                                h1_h2_text, Join(" ", url_tokens)))

----------------------------------------------------------------------------
(* extract.validate_keyword_quality *)

\* ScoreTooLow with no limit at all
ScoreNeverTooLow(kw) == FALSE

\* kw["score"] < 1.5
ScoreTooLow(kw) == kw.score < 150

\* FrequencyTooLow with the bound one lower: a single occurrence is enough
FrequencyBelowOne(kw) == kw.freq < 1

\* kw["freq"] < 2
FrequencyTooLow(kw) == kw.freq < 2

KeywordIsValid(kw) ==
    LET keyword == kw.text
    IN /\ ~ScoreTooLow(kw)
       /\ ~FrequencyTooLow(kw)
       /\ ~(kw.density > 500)
       /\ ~AnyIn(generic_patterns, Lower(keyword))
       /\ ~(Len(Split(keyword)) = 1 /\ Lower(keyword) \in common_single_words)

validate_keyword_quality(keywords) ==
    SelectSeqIdx(keywords, {i \in 1..Len(keywords) : KeywordIsValid(keywords[i])})

-----------------------------------------------------------------------------
(* Python floats: IEEE 754 doubles as m * 2^e, m a natural number of at most *)
(* 53 bits held as a sequence of 14-bit limbs, the lowest first; every        *)
(* operation rounds to the nearest double, ties to even                       *)

Limb == 2^14

\* the limbs of a natural number
RECURSIVE NatOf(_)
NatOf(n) == IF n = 0 THEN <<>> ELSE <<n % Limb>> \o NatOf(n \div Limb)

\* the limbs without the zero limbs at the top
RECURSIVE Trim(_)
Trim(a) ==
    IF a = <<>> THEN <<>>
    ELSE IF a[Len(a)] = 0 THEN Trim(SubSeq(a, 1, Len(a) - 1))
    ELSE a

RestOf(a) == IF a = <<>> THEN <<>> ELSE Tail(a)

LowOf(a) == IF a = <<>> THEN 0 ELSE Head(a)

RECURSIVE NatAddCarry(_, _, _)
NatAddCarry(a, b, carry) ==
    IF a = <<>> /\ b = <<>> THEN NatOf(carry)
    ELSE <<(LowOf(a) + LowOf(b) + carry) % Limb>>
         \o NatAddCarry(RestOf(a), RestOf(b), (LowOf(a) + LowOf(b) + carry) \div Limb)

NatAdd(a, b) == NatAddCarry(a, b, 0)

\* a * d + carry for d and carry below 2^14
RECURSIVE NatMulSmall(_, _, _)
NatMulSmall(a, d, carry) ==
    IF a = <<>> THEN NatOf(carry)
    ELSE <<(Head(a) * d + carry) % Limb>>
         \o NatMulSmall(Tail(a), d, (Head(a) * d + carry) \div Limb)

LimbAt(a, i) == IF i >= 1 /\ i <= Len(a) THEN a[i] ELSE 0

\* the sum of the products of the limbs of a and b that weigh Limb^(k-1), for a
\* and b of 4 limbs at most
Column(a, b, k) ==
    LimbAt(a, 1) * LimbAt(b, k) + LimbAt(a, 2) * LimbAt(b, k - 1)
        + LimbAt(a, 3) * LimbAt(b, k - 2) + LimbAt(a, 4) * LimbAt(b, k - 3)

\* the limbs k to 8 of a * b, given the carry into limb k
RECURSIVE NatMulFrom(_, _, _, _)
NatMulFrom(a, b, k, sum) ==
    IF k = 8 THEN <<sum % Limb>>
    ELSE <<sum % Limb>> \o NatMulFrom(a, b, k + 1, Column(a, b, k + 1) + sum \div Limb)

\* a * b, for a and b of 4 limbs at most
NatMul(a, b) == Trim(NatMulFrom(a, b, 1, Column(a, b, 1)))

\* the quotient and the remainder of a by d, for d below 2^14, from the top limb
RECURSIVE NatDivSmall(_, _, _)
NatDivSmall(a, d, rem) ==
    IF a = <<>> THEN [quot |-> <<>>, rem |-> rem]
    ELSE LET top == rem * Limb + a[Len(a)]
             low == NatDivSmall(SubSeq(a, 1, Len(a) - 1), d, top % d)
         IN [quot |-> low.quot \o <<top \div d>>, rem |-> low.rem]

\* a * 2^k
NatShl(a, k) ==
    IF a = <<>> \/ k = 0 THEN a
    ELSE [i \in 1..(k \div 14) |-> 0] \o NatMulSmall(a, 2^(k % 14), 0)

\* the number of bits of a limb
LimbBits(v) == CHOOSE k \in 0..14 : v < 2^k /\ (k = 0 \/ v >= 2^(k - 1))

\* the number of bits of a, its top limb not zero
NatBitLen(a) == IF a = <<>> THEN 0 ELSE 14 * (Len(a) - 1) + LimbBits(a[Len(a)])

\* a < b, for a and b with no zero limb at the top
RECURSIVE NatLess(_, _)
NatLess(a, b) ==
    IF Len(a) # Len(b) THEN Len(a) < Len(b)
    ELSE IF a = <<>> THEN FALSE
    ELSE IF a[Len(a)] # b[Len(b)] THEN a[Len(a)] < b[Len(b)]
    ELSE NatLess(SubSeq(a, 1, Len(a) - 1), SubSeq(b, 1, Len(b) - 1))

\* what is cut off below bit k of a against half of 2^k: -1 below, 0 equal, 1 above
CutAgainstHalf(a, k) ==
    LET q == k \div 14
        r == k % 14
        zeros(n) == \A i \in 1..n : a[i] = 0
    IN IF r = 0
       THEN (IF a[q] > 2^13 THEN 1
             ELSE IF a[q] < 2^13 THEN -1
             ELSE IF zeros(q - 1) THEN 0 ELSE 1)
       ELSE (IF a[q + 1] % 2^r > 2^(r - 1) THEN 1
             ELSE IF a[q + 1] % 2^r < 2^(r - 1) THEN -1
             ELSE IF zeros(q) THEN 0 ELSE 1)

\* a \div 2^k
NatShr(a, k) ==
    Trim(NatDivSmall(SubSeq(a, k \div 14 + 1, Len(a)), 2^(k % 14), 0).quot)

\* the quotient q of a cut, one higher if the cut was above half, or was half
\* and q is odd
NearestEven(q, cut) ==
    IF cut = 1 \/ (cut = 0 /\ LowOf(q) % 2 = 1) THEN NatAdd(q, <<1>>) ELSE q

\* a \div 2^k rounded to nearest, ties to even
NatShrRounded(a, k) == NearestEven(NatShr(a, k), CutAgainstHalf(a, k))

\* m * 2^e for m of at most 54 bits with its lowest bit 0 if it has 54
Carried(m, e) ==
    IF Len(m) = 4 /\ m[4] >= 2^11 THEN [m |-> NatShr(m, 1), e |-> e + 1]
    ELSE [m |-> m, e |-> e]

\* the double nearest to m * 2^e, for m of the given number of bits
RoundedFrom(m, e, bits) ==
    IF bits <= 53 THEN [m |-> m, e |-> e]
    ELSE Carried(NatShrRounded(m, bits - 53), e + bits - 53)

\* the double nearest to m * 2^e
RoundNat(m, e) == RoundedFrom(m, e, NatBitLen(m))

\* the mantissa of x at the exponent e <= x.e
MantissaAt(x, e) == NatShl(x.m, x.e - e)

LowerExp(x, y) == IF x.e < y.e THEN x.e ELSE y.e

\* x + y
FAdd(x, y) ==
    IF x.m = <<>> THEN y
    ELSE IF y.m = <<>> THEN x
    ELSE RoundNat(NatAdd(MantissaAt(x, LowerExp(x, y)), MantissaAt(y, LowerExp(x, y))),
                  LowerExp(x, y))

\* 1.0, as the literal is rounded: 2^52 * 2^-52
One == [m |-> <<0, 0, 0, 2^10>>, e |-> -52]

\* x * y
FMul(x, y) ==
    IF x.m = <<>> THEN x
    ELSE IF y.m = <<>> THEN y
    ELSE IF y = One THEN x
    ELSE RoundNat(NatMul(x.m, y.m), x.e + y.e)

\* x < y
FLess(x, y) ==
    IF y.m = <<>> THEN FALSE
    ELSE IF x.m = <<>> THEN TRUE
    ELSE NatLess(MantissaAt(x, LowerExp(x, y)), MantissaAt(y, LowerExp(x, y)))

\* the double nearest to n / d, for naturals n and 0 < d < 2^14: the literal
\* n/d written in decimal, or the division of two such doubles
FromRatio(n, d) ==
    LET scaled == NatDivSmall(NatShl(NatOf(n), 70), d, 0)
        sticky == IF scaled.rem = 0 THEN 0 ELSE 1
    IN RoundNat(Trim(NatMulSmall(Trim(scaled.quot), 2, sticky)), -71)

\* the double of the decimal literal n/100, for the literals of the code
Literals == [n \in 0..220 |-> FromRatio(n, 100)]

Literal(n) == Literals[n]

----------------------------------------------------------------------------
(* utils.choose_parent_keyword *)

is_boilerplate_phrase(text) == Range(tokenize_phrase(text)) \cap SECTION_TERMS # {}

\* the test of one item for the eligible pool (lines 154-165)
EligibleTokens(kw, tokens) ==
    /\ ~(Len(tokens) < 2)
    /\ ~(/\ is_boilerplate_phrase(kw)
         /\ \A i \in 1..Len(tokens) : tokens[i] \in SECTION_TERMS)
    /\ \E i \in 1..Len(tokens) : ~is_generic_base(tokens[i])

\* Eligible with the multi-word test alone
EligibleIfMultiWord(item) == Len(tokenize_phrase(item.text)) >= 2

\* the test of one item for the eligible pool (lines 154-165)
Eligible(item) == EligibleTokens(item.text, tokenize_phrase(item.text))

parent_question_patterns == <<"how to", "what is", "why", "when", "where", "which">>

parent_comparison_patterns == <<"vs", "versus", "comparison", "compare", "best">>

\* quality_score after the loop over the words: *= 1.4 for each indicator
RECURSIVE ParentQualityOfWords(_, _)
ParentQualityOfWords(words, q) ==
    IF words = <<>> THEN q
    ELSE ParentQualityOfWords(Tail(words),
            IF Head(words) \in parent_indicators THEN FMul(q, Literal(140)) ELSE q)

\* quality_score *= factor when cond holds
ScaledIf(q, cond, factor) == IF cond THEN FMul(q, factor) ELSE q

\* max(0.5, min(2.0, quality_score))
ClampedQuality(q) ==
    IF FLess(Literal(200), q) THEN Literal(200)
    ELSE IF FLess(q, Literal(50)) THEN Literal(50)
    ELSE q

ParentQualityOf(keyword_lower, words) ==
    ClampedQuality(
        ScaledIf(ScaledIf(ScaledIf(ParentQualityOfWords(words, Literal(100)),
                                   AnyIn(parent_question_patterns, keyword_lower),
                                   Literal(130)),
                          AnyIn(parent_comparison_patterns, keyword_lower), Literal(120)),
                 CountCommon(words) * 10 > Len(words) * 4, Literal(80)))

calculate_semantic_quality_for_parent(keyword) ==
    ParentQualityOf(Lower(keyword), Split(Lower(keyword)))

\* 0.8 if any(bt in url_tokens for bt in boilerplate_terms) else 1.0
url_boilerplate_penalty(url_tokens) ==
    IF \E bt \in SECTION_TERMS : Contains(url_tokens, bt) THEN Literal(80)
    ELSE Literal(100)

\* 1.0, 1.2, 1.0 for two, three, four tokens, else 0.7
LengthScore(word_count) ==
    CASE word_count = 2 -> Literal(100)
      [] word_count = 3 -> Literal(120)
      [] word_count = 4 -> Literal(100)
      [] OTHER -> Literal(70)

\* hit if in_text(keyword, text) else 0.0
HitIn(keyword, text, hit) == IF in_text(keyword, text) THEN hit ELSE Literal(0)

\* min(item.get("freq", 0), 10) / 10.0
FreqScore(item) == Literal(10 * (IF item.freq < 10 THEN item.freq ELSE 10))

DensityScore(item) == IF item.density > 300 THEN Literal(70) ELSE Literal(100)

IntentScore(keyword) ==
    IF infer_intent(keyword) \in {"transactional", "informational"} THEN Literal(120)
    ELSE Literal(90)

\* the terms of the sum of line 207 to 217, in the order they are added
RankTerms(item, tokens, title, h1_h2_text, url_tokens) ==
    <<FMul(Literal(25), FromRatio(item.score, 100)),
      FMul(Literal(20), HitIn(item.text, title, Literal(220))),
      FMul(Literal(15), HitIn(item.text, h1_h2_text, Literal(160))),
      FMul(Literal(10), HitIn(item.text, url_tokens, Literal(100))),
      FMul(Literal(10), LengthScore(Len(tokens))),
      FMul(Literal(10), calculate_semantic_quality_for_parent(item.text)),
      FMul(Literal(5), FreqScore(item)),
      FMul(Literal(3), DensityScore(item)),
      FMul(Literal(2), IntentScore(item.text))>>

\* acc + t1 + t2 + ..., from the left; 0.0 + t1 is t1
RECURSIVE SumFrom(_, _)
SumFrom(acc, terms) ==
    IF terms = <<>> THEN acc ELSE SumFrom(FAdd(acc, Head(terms)), Tail(terms))

WeightedSum(item, tokens, title, h1_h2_text, url_tokens) ==
    SumFrom(Literal(0), RankTerms(item, tokens, title, h1_h2_text, url_tokens))

\* 0.8 if (is_boilerplate_phrase(keyword) or has_temporal) else 1.0
boilerplate_penalty(keyword, tokens) ==
    IF \/ is_boilerplate_phrase(keyword)
       \/ \E i \in 1..Len(tokens) : is_temporal_token(tokens[i])
    THEN Literal(80) ELSE Literal(100)

topical_boost(tokens) ==
    IF has_energy_topical(Range(tokens)) THEN Literal(110) ELSE Literal(100)

\* RankOf with the URL penalty on the items inside the URL tokens alone
RankPenalisingUrlHits(item, tokens, title, h1_h2_text, url_tokens) ==
    FMul(FMul(FMul(WeightedSum(item, tokens, title, h1_h2_text, url_tokens),
                   boilerplate_penalty(item.text, tokens)),
              IF in_text(item.text, url_tokens) THEN url_boilerplate_penalty(url_tokens)
              ELSE Literal(100)),
         topical_boost(tokens))

\* the rank of an item whose text tokenizes to tokens: final_score, a float
RankOf(item, tokens, title, h1_h2_text, url_tokens) ==
    FMul(FMul(FMul(WeightedSum(item, tokens, title, h1_h2_text, url_tokens),
                   boilerplate_penalty(item.text, tokens)),
              url_boilerplate_penalty(url_tokens)),
         topical_boost(tokens))

parent_rank(item, title, h1_h2_text, url_tokens) ==
    RankOf(item, tokenize_phrase(item.text), title, h1_h2_text, url_tokens)

\* the last index at which rank is maximal
LastMax(rank) ==
    CHOOSE i \in 1..Len(rank) :
        \A j \in 1..Len(rank) : ~FLess(rank[i], rank[j]) /\ (FLess(rank[j], rank[i]) \/ j <= i)

\* the first index at which rank is maximal
FirstMax(rank) ==
    Min({i \in 1..Len(rank) : \A j \in 1..Len(rank) : ~FLess(rank[i], rank[j])})

\* max(pool, key=parent_rank): the first item of maximal rank
MaxByRank(pool, title, h1_h2_text, url_tokens) ==
    pool[FirstMax([i \in 1..Len(pool) |->
                      parent_rank(pool[i], title, h1_h2_text, url_tokens)])]

\* lines 152-168
EligiblePool(scored_keywords) ==
    SelectSeqIdx(scored_keywords,
                 {i \in 1..Len(scored_keywords) : Eligible(scored_keywords[i])})

\* lines 173-174
SeededPool(eligible, title, h1_h2_text) ==
    SelectSeqIdx(eligible, {i \in 1..Len(eligible) :
                               \/ in_text(eligible[i].text, title)
                               \/ in_text(eligible[i].text, h1_h2_text)})

\* PoolOf without the preference for the seeded items
WholePool(eligible, seeded) == eligible

\* line 175: seeded or eligible
PoolOf(eligible, seeded) == IF seeded # <<>> THEN seeded ELSE eligible

\* line 228
MultiWordPool(pool) ==
    SelectSeqIdx(pool, {i \in 1..Len(pool) : Len(tokenize_phrase(pool[i].text)) >= 2})

\* lines 226-232: the final multi-word check on the best item
CheckedBest(best, multi, title, h1_h2_text, url_tokens) ==
    IF Len(tokenize_phrase(best.text)) < 2
    THEN (IF multi # <<>> THEN MaxByRank(multi, title, h1_h2_text, url_tokens)
          ELSE None)
    ELSE best

BestOfPool(pool, title, h1_h2_text, url_tokens) ==
    CheckedBest(MaxByRank(pool, title, h1_h2_text, url_tokens), MultiWordPool(pool),
                title, h1_h2_text, url_tokens)

BestOfEligible(eligible, title, h1_h2_text, url_tokens) ==
    IF eligible = <<>> THEN None
    ELSE BestOfPool(PoolOf(eligible, SeededPool(eligible, title, h1_h2_text)),
                    title, h1_h2_text, url_tokens)

choose_parent_keyword(scored_keywords, title, h1_h2_text, url_tokens) ==
    IF scored_keywords = <<>> THEN None
    ELSE BestOfEligible(EligiblePool(scored_keywords), title, h1_h2_text, url_tokens)

----------------------------------------------------------------------------
(* utils.TreeNode: the objects live in a heap, a sequence indexed by object id *)

\* TreeNode.__init__
Node(text, score) ==
    [text |-> text, score |-> score,
     tokens |-> Range(tokenize_phrase(text)), children |-> <<>>]

\* a TreeNode(text, score) call: the heap with the new object, whose id is Len of it
NewNode(heap, text, score) == Append(heap, Node(text, score))

\* node.children.append(child)
AppendChild(heap, node, child) ==
    [heap EXCEPT ![node].children = Append(@, child)]

RECURSIVE to_dict(_, _)
to_dict(heap, node) ==
    [text |-> heap[node].text,
     score |-> heap[node].score,
     children |-> [i \in 1..Len(heap[node].children) |->
                      to_dict(heap, heap[node].children[i])]]

\* jaccard_similarity with the size of the first set for the union
OverlapOfFirst(a, b) ==
    IF a = {} \/ b = {} THEN [num |-> 0, den |-> 1]
    ELSE [num |-> Cardinality(a \cap b), den |-> Cardinality(a)]

\* the similarity as a fraction [num, den] (0.0 is 0/1)
jaccard_similarity(a, b) ==
    IF a = {} \/ b = {} THEN [num |-> 0, den |-> 1]
    ELSE LET intersection == Cardinality(a \cap b)
             union == Cardinality(a \cup b)
         IN IF union # 0 THEN [num |-> intersection, den |-> union]
            ELSE [num |-> 0, den |-> 1]

\* round(x, 3) of a fraction, in 1/1000
Round3(x) == (x.num * 2000 + x.den) \div (2 * x.den)

----------------------------------------------------------------------------
(* extract.create_sub_parents *)

ThemeKeywords(sorted_keywords, used_keywords, theme_words) ==
    SelectSeqIdx(sorted_keywords,
        {i \in 1..Len(sorted_keywords) :
            /\ sorted_keywords[i].text \notin used_keywords
            /\ AnyIn(theme_words, Lower(sorted_keywords[i].text))})

\* the new objects kids go on the heap and become the children of sub_parent
AppendChildren(heap, sub_parent, kids) ==
    [(heap \o kids) EXCEPT ![sub_parent].children =
        @ \o [i \in 1..Len(kids) |-> Len(heap) + i]]

\* lines 52-54: a node for each keyword of group after the first, each appended
\* to the children of sub_parent
AddChildren(heap, sub_parent, group) ==
    AppendChildren(heap, sub_parent,
        [i \in 1..(Len(group) - 1) |-> Node(group[i + 1].text, group[i + 1].score)])

\* lines 45-56: the sub-parent of a theme and its children
AddThemeGroup(st, theme_keywords) ==
    IF theme_keywords = <<>> THEN st
    ELSE [heap |-> AddChildren(NewNode(st.heap, theme_keywords[1].text,
                                       theme_keywords[1].score),
                               Len(st.heap) + 1, theme_keywords),
          sub_parents |-> Append(st.sub_parents, Len(st.heap) + 1),
          used |-> st.used \cup Range([i \in 1..Len(theme_keywords) |->
                                          theme_keywords[i].text])]

\* one round of the loop over the themes (lines 35-56)
GroupByTheme(st, sorted_keywords, theme_words) ==
    AddThemeGroup(st, ThemeKeywords(sorted_keywords, st.used, theme_words))

\* GroupByThemes with the themes taken from the last to the first
GroupByThemesBackwards(st, sorted_keywords) ==
    GroupByTheme(
      GroupByTheme(
        GroupByTheme(
          GroupByTheme(
            GroupByTheme(st, sorted_keywords, theme_technology),
            sorted_keywords, theme_business),
          sorted_keywords, theme_social_media),
        sorted_keywords, theme_real_estate),
      sorted_keywords, theme_ai_related)

\* the loop over the themes, in the order of the dict
GroupByThemes(st, sorted_keywords) ==
    GroupByTheme(
      GroupByTheme(
        GroupByTheme(
          GroupByTheme(
            GroupByTheme(st, sorted_keywords, theme_ai_related),
            sorted_keywords, theme_real_estate),
          sorted_keywords, theme_social_media),
        sorted_keywords, theme_business),
      sorted_keywords, theme_technology)

\* AddUngrouped without its loop: the keywords no theme took get no node
AddUngroupedSkipped(st, sorted_keywords) == st

\* the new objects made become sub-parents
AppendSubParents(st, made) ==
    [st EXCEPT !.heap = @ \o made,
               !.sub_parents = @ \o [i \in 1..Len(made) |-> Len(st.heap) + i]]

\* the keywords no theme has taken
Ungrouped(st, sorted_keywords) ==
    SelectSeqIdx(sorted_keywords,
        {i \in 1..Len(sorted_keywords) : sorted_keywords[i].text \notin st.used})

NodesOf(rest) == [i \in 1..Len(rest) |-> Node(rest[i].text, rest[i].score)]

\* the loop over the ungrouped keywords (lines 59-62)
AddUngrouped(st, sorted_keywords) ==
    AppendSubParents(st, NodesOf(Ungrouped(st, sorted_keywords)))

\* lines 20-62 on the sorted keywords
SubParentsOf(heap, sorted_keywords) ==
    AddUngrouped(GroupByThemes([heap |-> heap, sub_parents |-> <<>>, used |-> {}],
                               sorted_keywords),
                 sorted_keywords)

\* returns the heap with the new nodes, and the list of sub-parent objects
create_sub_parents(heap, keywords, parent_text) ==
    IF keywords = <<>> THEN [heap |-> heap, sub_parents |-> <<>>, used |-> {}]
    ELSE SubParentsOf(heap, SortByScoreDesc(keywords))

----------------------------------------------------------------------------
(* extract.extract_keywords_from_html and the collaborators it calls *)

TopN == 30

\* Or that takes b whatever a is
SecondAlone(a, b) == b

Or(a, b) == IF a # "" THEN a ELSE b

\* urlparse(url): hostname (lowercased) and path of scheme://host/path
UrlHostname(u) ==
    IF Contains(u, "://")
    THEN LET rest == SplitOn(u, "/")   \* <<scheme:, "", host, segment, ...>>
         IN Lower(rest[3])
    ELSE ""

UrlPath(u) ==
    IF Contains(u, "://")
    THEN LET rest == SplitOn(u, "/")
         IN IF Len(rest) > 3 THEN "/" \o Join("/", SubSeq(rest, 4, Len(rest))) ELSE ""
    ELSE u

\* host labels without "www" and empty ones, then the path segments
UrlTokens(u) ==
    LET host == SplitOn(UrlHostname(u), ".")
        host_tokens == SelectSeqIdx(host,
                          {i \in 1..Len(host) : host[i] # "" /\ host[i] # "www"})
        path == SplitOn(UrlPath(u), "/")
        path_tokens == SelectSeqIdx(path, {i \in 1..Len(path) : path[i] # ""})
    IN host_tokens \o path_tokens

HeadingTags == <<"h1", "h2", "h3", "h4", "h5", "h6">>

\* the headings tag by tag (all h1, then all h2, ...), stripped, empty ones dropped
RECURSIVE HeadingsFrom(_, _)
HeadingsFrom(hs, t) ==
    IF t > Len(HeadingTags) THEN <<>>
    ELSE LET idx == {i \in 1..Len(hs) :
                        hs[i].level = HeadingTags[t] /\ Strip(hs[i].text) # ""}
             found == SelectSeqIdx(hs, idx)
         IN [i \in 1..Len(found) |-> [level |-> found[i].level,
                                      text |-> Strip(found[i].text)]]
            \o HeadingsFrom(hs, t + 1)

extract_content_signals(html, u) ==
    [title |-> Strip(html.title),
     meta_desc |-> Strip(html.meta_desc),
     og_title |-> Strip(html.og_title),
     og_desc |-> Strip(html.og_desc),
     headings |-> HeadingsFrom(html.headings, 1),
     url_tokens |-> UrlTokens(u)]

extract_readable_text(html) == [s |-> Strip(html.body), pad |-> html.pad]

\* langdetect.detect: English pages; no text raises, which is caught as "en"
DetectLanguage(text) == "en"

\* preprocess_text(..)[1]
preprocess_text(text, lang) == IF lang # "" THEN lang ELSE DetectLanguage(text)

HeadingTexts(hs) == [i \in 1..Len(hs) |-> hs[i].text]

\* lines 398-405
CombineText(sig, processed_text) ==
    [s |-> Join(" ", <<sig.title, sig.meta_desc, sig.og_title, sig.og_desc,
                       Join(" ", HeadingTexts(sig.headings)), processed_text.s>>),
     pad |-> processed_text.pad]

\* line 411
H1H2Text(sig) ==
    Join(" ", HeadingTexts(SelectSeqIdx(sig.headings,
                 {i \in 1..Len(sig.headings) : sig.headings[i].level \in {"h1", "h2"}})))

\* TopKeywords without the cut
AllKeywords(validated) == validated

\* validated_keywords[:30]
TopKeywords(validated) ==
    SubSeq(validated, 1, IF Len(validated) > TopN THEN TopN ELSE Len(validated))

\* FallbackParent taking the last keyword of the list instead of the first
FallbackParentLast(top) ==
    [text |-> top[Len(top)].text, score |-> top[Len(top)].score,
     freq |-> top[Len(top)].freq]

\* lines 427-431
FallbackParent(top) ==
    [text |-> top[1].text, score |-> top[1].score, freq |-> top[1].freq]

\* line 453
OthersThan(top, p) == SelectSeqIdx(top, {i \in 1..Len(top) : top[i].text # p.text})

\* lines 465-466
AttachAll(heap, node, children) ==
    [heap EXCEPT ![node].children = @ \o children]

\* LinkTree with the sub-parents put under the root as well as under the parent
LinkTreeUnderRoot(sp, root, parent_node) ==
    [heap |-> AppendChild(AttachAll(AttachAll(sp.heap, parent_node, sp.sub_parents),
                                    root, sp.sub_parents),
                          root, parent_node),
     url_root |-> root,
     sub_parents |-> sp.sub_parents]

\* lines 455-471: the objects of the tree; the root is object 1, the parent object 2
\* lines 465-471: the sub-parents go under the parent node, the parent under the root
LinkTree(sp, root, parent_node) ==
    [heap |-> AppendChild(AttachAll(sp.heap, parent_node, sp.sub_parents),
                          root, parent_node),
     url_root |-> root,
     sub_parents |-> sp.sub_parents]

\* lines 455-471: the objects of the tree; the root is object 1, the parent object 2
BuildTree(u, p, others) ==
    LinkTree(create_sub_parents(NewNode(NewNode(<<>>, u, 0), p.text, p.score),
                                others, p.text),
             1, 2)

\* ChildrenList from the last sub-parent to the first
ChildrenListBackwards(heap, p, subs) ==
    LET parent_tokens == Range(tokenize_phrase(p.text))
    IN [i \in 1..Len(subs) |->
          [text |-> heap[subs[Len(subs) + 1 - i]].text,
           score |-> heap[subs[Len(subs) + 1 - i]].score,
           freq |-> 0,
           intent |-> infer_intent(heap[subs[Len(subs) + 1 - i]].text),
           similarity |-> Round3(jaccard_similarity(parent_tokens,
                              Range(tokenize_phrase(heap[subs[Len(subs) + 1 - i]].text))))]]

ChildrenList(heap, p, subs) ==
    LET parent_tokens == Range(tokenize_phrase(p.text))
    IN [i \in 1..Len(subs) |->
          [text |-> heap[subs[i]].text,
           score |-> heap[subs[i]].score,
           freq |-> 0,
           intent |-> infer_intent(heap[subs[i]].text),
           similarity |-> Round3(jaccard_similarity(parent_tokens,
                              Range(tokenize_phrase(heap[subs[i]].text))))]]

\* lines 491-498
KeywordsList(top) ==
    [i \in 1..Len(top) |-> [text |-> top[i].text, score |-> top[i].score,
                            freq |-> top[i].freq, intent |-> infer_intent(top[i].text)]]

DebugInfo(cands, sc, validated, top, p) ==
    [total_candidates |-> Len(cands),
     scored_keywords |-> Len(sc),
     validated_keywords |-> Len(validated),
     top_keywords_count |-> Len(top),
     parent_selected |-> IF p = None THEN None ELSE p.text,
     parent_score |-> IF p = None THEN None ELSE p.score]

\* EmptyResult with the tree rooted at the URL the result reports (final_url or url)
EmptyResultRootedAtFinalUrl(u, fu, lang, cands, sc, validated, top) ==
    [url |-> Or(fu, u),
     language |-> lang,
     parent |-> None,
     children |-> <<>>,
     tree |-> to_dict(NewNode(<<>>, Or(fu, u), 0), 1),
     keywords |-> <<>>,
     debug |-> DebugInfo(cands, sc, validated, top, None)]

\* lines 435-450
EmptyResult(u, fu, lang, cands, sc, validated, top) ==
    [url |-> Or(fu, u),
     language |-> lang,
     parent |-> None,
     children |-> <<>>,
     tree |-> to_dict(NewNode(<<>>, u, 0), 1),
     keywords |-> <<>>,
     debug |-> DebugInfo(cands, sc, validated, top, None)]

\* lines 510-523
FullResult(u, fu, lang, cands, sc, validated, top, p, heap, root, subs) ==
    [url |-> Or(fu, u),
     language |-> lang,
     parent |-> [text |-> p.text, score |-> p.score, freq |-> p.freq,
                 intent |-> infer_intent(p.text)],
     children |-> ChildrenList(heap, p, subs),
     tree |-> to_dict(heap, root),
     keywords |-> KeywordsList(top),
     debug |-> DebugInfo(cands, sc, validated, top, p)]

\* lines 473-523: the result built from the tree t
ResultOfTree(u, fu, lang, cands, sc, validated, top, p, t) ==
    FullResult(u, fu, lang, cands, sc, validated, top, p,
               t.heap, t.url_root, t.sub_parents)

\* lines 455-523
ResultWithParent(u, fu, lang, cands, sc, validated, top, p, others) ==
    ResultOfTree(u, fu, lang, cands, sc, validated, top, p, BuildTree(u, p, others))

\* lines 424-523: what the function returns once choose_parent_keyword gave chosen
ResultAfterChoice(u, fu, lang, cands, sc, validated, top, chosen) ==
    IF chosen = None /\ top = <<>>
    THEN EmptyResult(u, fu, lang, cands, sc, validated, top)
    ELSE ResultWithParent(u, fu, lang, cands, sc, validated, top,
                          IF chosen = None THEN FallbackParent(top) ELSE chosen,
                          IF chosen = None THEN Tail(top) ELSE OthersThan(top, chosen))

\* lines 418-523
ResultOfTop(u, fu, lang, cands, sc, validated, top, sig) ==
    ResultAfterChoice(u, fu, lang, cands, sc, validated, top,
                      choose_parent_keyword(top, sig.title, H1H2Text(sig),
                                            Join(" ", sig.url_tokens)))

\* lines 415-523
ResultOfScored(u, fu, lang, cands, sc, validated, sig) ==
    ResultOfTop(u, fu, lang, cands, sc, validated, TopKeywords(validated), sig)

\* lines 411-523
ResultOfCandidates(u, fu, lang, cands, sc, sig) ==
    ResultOfScored(u, fu, lang, cands, sc, validate_keyword_quality(sc), sig)

\* lines 408-523
ResultOfText(u, fu, lang, text, cands, sig) ==
    ResultOfCandidates(u, fu, lang, cands,
                       score_keywords(cands, text, sig.title, H1H2Text(sig),
                                      sig.url_tokens),
                       sig)

\* lines 392-523
ResultOfSignals(u, fu, lang, sig, readable_text, seed) ==
    ResultOfText(u, fu, preprocess_text(readable_text, lang),
                 CombineText(sig, readable_text),
                 generate_candidates(CombineText(sig, readable_text), seed), sig)

\* the whole function, for a process whose hash seed is seed
extract_keywords_from_html(html, u, fu, lang, seed) ==
    ResultOfSignals(u, fu, lang, extract_content_signals(html, Or(fu, u)),
                    extract_readable_text(html), seed)

----------------------------------------------------------------------------
(* The requests: pages, URLs and language hints *)

MaxReps == 2

\* the pad lengths: a page of a few words, where one occurrence of a word is under
\* the 5% density ceiling and two are not, pages around the ceiling, and pages
\* long enough for the 0.05% frequency floor to pass 1 and to reach 2
Pads == {20, 36, 150, 2500, 4000}

Heading(level, text) == [level |-> level, text |-> text]

ManyWords ==
    Join(" ", <<"oak", "elm", "ash", "fir", "yew", "bay", "fig", "rye", "nut", "gum",
                "chat", "kelp", "moss", "fern", "reed", "sage", "mint", "7">>)

\* a template: the body is ra times a, then rb times b, then tail
PageTemplates ==
    {[title |-> "Best Solar Panels",
      headings |-> <<Heading("h3", "Wind Turbines"), Heading("h1", " Solar Panels ")>>,
      a |-> "solar panels", b |-> "wind turbines", tail |-> ""],
     [title |-> "",
      headings |-> <<>>,
      a |-> "chatbot automation", b |-> "ai tools",
      tail |->
        "property investment 7 property investment 7 wind turbines 7 wind turbines"],
     [title |-> " Solar ",
      headings |-> <<>>,
      a |-> "solar 7", b |-> "real estate", tail |-> "solar"],
     [title |-> "Privacy Policy",
      headings |-> <<Heading("h2", "Policy")>>,
      a |-> "privacy policy", b |-> "contact support team", tail |-> "policy"],
     [title |-> "",
      headings |-> <<Heading("h2", "Buy Cheap Solar"), Heading("h2", "")>>,
      a |-> "buy cheap solar", b |-> "the web page online", tail |-> "begin"],
     [title |-> "", headings |-> <<>>, a |-> "", b |-> "", tail |-> ""],
     \* a run of 17 words: twice, it holds 16 two-word and 15 three-word keywords
     [title |-> "",
      headings |-> <<>>,
      a |-> ManyWords, b |-> "dill herb 7", tail |-> ""]}

Requests ==
    {[url |-> "https://www.example.com/solar/panels", final_url |-> "",
      lang_guess |-> ""],
     [url |-> "http://example.com/privacy",
      final_url |-> "https://www.Example.com/blog/ai-tools", lang_guess |-> "en"],
     [url |-> "https://example.org", final_url |-> "https://example.org",
      lang_guess |-> "fr"]}

Repeat(s, n) == [i \in 1..n |-> s]

\* what the HTML parsers find in the page made from a template
PageOf(tpl, ra, rb, pad) ==
    [title |-> tpl.title, meta_desc |-> "", og_title |-> "", og_desc |-> "",
     headings |-> tpl.headings,
     body |-> Join(" ", Repeat(tpl.a, ra) \o Repeat(tpl.b, rb) \o <<tpl.tail>>),
     pad |-> pad]

----------------------------------------------------------------------------
(* One call of extract_keywords_from_html, stage by stage *)

\* no single function call is under way
NoCall == call = None /\ ret = None

\* the HTTP handler is not serving
NoRequest ==
    /\ req_pc = <<>>
    /\ permits = 0
    /\ waiters = <<>>
    /\ pool_pending = <<>>
    /\ pool_running = {}
    /\ outcome = {}

Init ==
    /\ pc = "start"
    /\ \E tpl \in PageTemplates, ra \in 0..MaxReps, rb \in 0..MaxReps, pad \in Pads :
          page = PageOf(tpl, ra, rb, pad)
    /\ \E req \in Requests :
          /\ url = req.url
          /\ final_url = req.final_url
          /\ lang_guess = req.lang_guess
    /\ hash_seed \in HashSeeds
    /\ signals = None
    /\ language = ""
    /\ all_text = None
    /\ candidates = <<>>
    /\ scored = <<>>
    /\ validated_keywords = <<>>
    /\ top_keywords = <<>>
    /\ parent = None
    /\ via_fallback = FALSE
    /\ other_keywords = <<>>
    /\ nodes = <<>>
    /\ url_root = None
    /\ sub_parents = <<>>
    /\ result = None
    /\ NoCall
    /\ NoRequest

\* lines 389-405
ExtractSignals ==
    /\ pc = "start"
    /\ signals' = extract_content_signals(page, Or(final_url, url))
    /\ language' = preprocess_text(extract_readable_text(page), lang_guess)
    /\ all_text' = CombineText(signals', extract_readable_text(page))
    /\ pc' = "signals"
    /\ UNCHANGED <<page, url, final_url, lang_guess, hash_seed, candidates, scored,
                   validated_keywords, top_keywords, parent, via_fallback,
                   other_keywords, nodes, url_root, sub_parents, result>>
    /\ UNCHANGED <<call_vars, handler_vars>>

\* line 408
GenerateCandidates ==
    /\ pc = "signals"
    /\ candidates' = generate_candidates(all_text, hash_seed)
    /\ pc' = "candidates"
    /\ UNCHANGED <<page, url, final_url, lang_guess, hash_seed, signals, language,
                   all_text, scored, validated_keywords, top_keywords, parent,
                   via_fallback, other_keywords, nodes, url_root, sub_parents, result>>
    /\ UNCHANGED <<call_vars, handler_vars>>

\* lines 411-412
ScoreKeywords ==
    /\ pc = "candidates"
    /\ scored' = score_keywords(candidates, all_text, signals.title,
                                H1H2Text(signals), signals.url_tokens)
    /\ pc' = "scored"
    /\ UNCHANGED <<page, url, final_url, lang_guess, hash_seed, signals, language,
                   all_text, candidates, validated_keywords, top_keywords, parent,
                   via_fallback, other_keywords, nodes, url_root, sub_parents, result>>
    /\ UNCHANGED <<call_vars, handler_vars>>

\* lines 415-418
ValidateKeywords ==
    /\ pc = "scored"
    /\ validated_keywords' = validate_keyword_quality(scored)
    /\ top_keywords' = TopKeywords(validated_keywords')
    /\ pc' = "validated"
    /\ UNCHANGED <<page, url, final_url, lang_guess, hash_seed, signals, language,
                   all_text, candidates, scored, parent, via_fallback,
                   other_keywords, nodes, url_root, sub_parents, result>>
    /\ UNCHANGED <<call_vars, handler_vars>>

\* line 421
ChooseParent ==
    /\ pc = "validated"
    /\ parent' = choose_parent_keyword(top_keywords, signals.title, H1H2Text(signals),
                                       Join(" ", signals.url_tokens))
    /\ pc' = "chosen"
    /\ UNCHANGED <<page, url, final_url, lang_guess, hash_seed, signals, language,
                   all_text, candidates, scored, validated_keywords, top_keywords,
                   via_fallback, other_keywords, nodes, url_root, sub_parents, result>>
    /\ UNCHANGED <<call_vars, handler_vars>>

\* lines 424-450: no parent and no keyword at all
ReturnEmpty ==
    /\ pc = "chosen"
    /\ parent = None
    /\ top_keywords = <<>>
    /\ result' = EmptyResult(url, final_url, language, candidates, scored,
                             validated_keywords, top_keywords)
    /\ pc' = "done"
    /\ UNCHANGED <<page, url, final_url, lang_guess, hash_seed, signals, language,
                   all_text, candidates, scored, validated_keywords, top_keywords,
                   parent, via_fallback, other_keywords, nodes, url_root, sub_parents>>
    /\ UNCHANGED <<call_vars, handler_vars>>

\* lines 424-432: no parent, the top keyword stands in
UseTopKeyword ==
    /\ pc = "chosen"
    /\ parent = None
    /\ top_keywords # <<>>
    /\ parent' = FallbackParent(top_keywords)
    /\ other_keywords' = Tail(top_keywords)
    /\ via_fallback' = TRUE
    /\ pc' = "grouping"
    /\ UNCHANGED <<page, url, final_url, lang_guess, hash_seed, signals, language,
                   all_text, candidates, scored, validated_keywords, top_keywords,
                   nodes, url_root, sub_parents, result>>
    /\ UNCHANGED <<call_vars, handler_vars>>

\* lines 451-453
KeepChosenParent ==
    /\ pc = "chosen"
    /\ parent # None
    /\ other_keywords' = OthersThan(top_keywords, parent)
    /\ pc' = "grouping"
    /\ UNCHANGED <<page, url, final_url, lang_guess, hash_seed, signals, language,
                   all_text, candidates, scored, validated_keywords, top_keywords,
                   parent, via_fallback, nodes, url_root, sub_parents, result>>
    /\ UNCHANGED <<call_vars, handler_vars>>

\* lines 455-471
BuildHierarchy ==
    /\ pc = "grouping"
    /\ LET t == BuildTree(url, parent, other_keywords)
       IN /\ nodes' = t.heap
          /\ url_root' = t.url_root
          /\ sub_parents' = t.sub_parents
    /\ pc' = "tree"
    /\ UNCHANGED <<page, url, final_url, lang_guess, hash_seed, signals, language,
                   all_text, candidates, scored, validated_keywords, top_keywords,
                   parent, via_fallback, other_keywords, result>>
    /\ UNCHANGED <<call_vars, handler_vars>>

\* lines 473-523
ReturnResult ==
    /\ pc = "tree"
    /\ result' = FullResult(url, final_url, language, candidates, scored,
                            validated_keywords, top_keywords, parent, nodes,
                            url_root, sub_parents)
    /\ pc' = "done"
    /\ UNCHANGED <<page, url, final_url, lang_guess, hash_seed, signals, language,
                   all_text, candidates, scored, validated_keywords, top_keywords,
                   parent, via_fallback, other_keywords, nodes, url_root, sub_parents>>
    /\ UNCHANGED <<call_vars, handler_vars>>

Next ==
    \/ ExtractSignals
    \/ GenerateCandidates
    \/ ScoreKeywords
    \/ ValidateKeywords
    \/ ChooseParent
    \/ ReturnEmpty
    \/ UseTopKeyword
    \/ KeepChosenParent
    \/ BuildHierarchy
    \/ ReturnResult

Spec == Init /\ [][Next]_vars

----------------------------------------------------------------------------
(* Properties of the result *)

Returned == pc = "done"

\* the texts of a tree dict's nodes, the node first and then its subtrees in order
RECURSIVE TextsOf(_)
TextsOf(d) ==
    LET RECURSIVE Flat(_, _)
        Flat(ch, i) == IF i > Len(ch) THEN <<>> ELSE TextsOf(ch[i]) \o Flat(ch, i + 1)
    IN <<d.text>> \o Flat(d.children, 1)

\* the texts of the keyword nodes of the returned tree: all nodes but the URL root
TreeKeywordTexts == Tail(TextsOf(result.tree))

Occurrences(seq, x) == Cardinality({i \in 1..Len(seq) : seq[i] = x})

\* C1: when the call returns a non-null parent, every keyword of the keywords list
\* is the text of exactly one node of the tree (the parent node, a sub-parent or
\* a leaf), and every keyword node of the tree carries a keyword of the list.
TreeHoldsEachKeywordOnce ==
    (Returned /\ result.parent # None) =>
        /\ \A i \in 1..Len(result.keywords) :
              Occurrences(TreeKeywordTexts, result.keywords[i].text) = 1
        /\ \A j \in 1..Len(TreeKeywordTexts) :
              \E i \in 1..Len(result.keywords) :
                  result.keywords[i].text = TreeKeywordTexts[j]

\* a returned tree with the parent, a theme sub-parent with a leaf under it, and
\* another sub-parent
TreeWithLeavesReturned ==
    /\ Returned
    /\ result.parent # None
    /\ \E i, j \in 1..Len(sub_parents) :
          /\ nodes[sub_parents[i]].children # <<>>
          /\ nodes[sub_parents[j]].children = <<>>
    /\ Len(result.keywords) >= 4

\* C2: whenever the call returns a non-null parent, tokenizing parent.text yields
\* at least 2 tokens, whether choose_parent_keyword chose it or the caller took
\* the top keyword itself.
ParentIsMultiWord ==
    (Returned /\ result.parent # None) =>
        Len(tokenize_phrase(result.parent.text)) >= 2

\* C3: every entry of the returned keywords list has score >= 1.5 and freq >= 2.
FinalKeywordsPassValidation ==
    Returned =>
        \A i \in 1..Len(result.keywords) :
            result.keywords[i].score >= 150 /\ result.keywords[i].freq >= 2

\* a call that returned keywords after the validator dropped one scored keyword for
\* its score and another, of sufficient score, for its frequency
ValidatorDroppedLowScoreAndLowFreq ==
    /\ Returned
    /\ result.keywords # <<>>
    /\ \E i, j \in 1..Len(scored) :
          /\ scored[i].score < 150 /\ scored[i].freq >= 2
          /\ scored[j].score >= 150 /\ scored[j].freq < 2

\* the dict of a TreeNode for the URL with score 0 and no children
BareRoot == [text |-> url, score |-> 0, children |-> <<>>]

\* C4: whenever the post-validation keyword list is empty, the call takes the
\* empty return and the result has parent null, no keywords, no children and a
\* tree that is a root node for url with score 0 and no children.
EmptyListGivesEmptyResult ==
    /\ (pc = "chosen" /\ validated_keywords = <<>>) => ENABLED ReturnEmpty
    /\ (Returned /\ validated_keywords = <<>>) =>
          /\ result.parent = None
          /\ result.keywords = <<>>
          /\ result.children = <<>>
          /\ result.tree = BareRoot

\* an empty result for a page that had scored keywords, none of them valid, asked
\* for with a final_url different from url
EmptyResultAfterValidation ==
    /\ Returned
    /\ scored # <<>>
    /\ validated_keywords = <<>>
    /\ final_url # ""
    /\ final_url # url
    /\ result.tree = BareRoot

\* choose_parent_keyword returned none although keywords were there
ParentSelectorGaveNone ==
    /\ top_keywords # <<>>
    /\ choose_parent_keyword(top_keywords, signals.title, H1H2Text(signals),
                             Join(" ", signals.url_tokens)) = None

\* the texts of the nodes below the parent node of the returned tree
TextsUnderParent == Tail(TextsOf(result.tree.children[1]))

\* C5: if choose_parent_keyword returns none and the top-30 list is not empty,
\* the parent is the first, top-scored keyword of that list, the remaining
\* keywords are the ones grouped under it, and the result is not empty: the
\* parent is non-null and is the child of the tree root.
FallbackTakesTopKeyword ==
    (Returned /\ ParentSelectorGaveNone) =>
        /\ result.parent # None
        /\ result.parent.text = top_keywords[1].text
        /\ result.parent.score = top_keywords[1].score
        /\ result.parent.freq = top_keywords[1].freq
        /\ \A i \in 1..Len(top_keywords) : top_keywords[1].score >= top_keywords[i].score
        /\ other_keywords = [i \in 1..(Len(top_keywords) - 1) |-> top_keywords[i + 1]]
        /\ Len(result.tree.children) = 1
        /\ result.tree.children[1].text = top_keywords[1].text
        /\ Range(TextsUnderParent) = {other_keywords[i].text : i \in 1..Len(other_keywords)}
        /\ Len(TextsUnderParent) = Len(other_keywords)

\* a returned fallback with several keywords under the stand-in parent
FallbackWithOtherKeywords ==
    /\ Returned
    /\ ParentSelectorGaveNone
    /\ via_fallback
    /\ Len(other_keywords) >= 2
    /\ top_keywords[1].score > top_keywords[Len(top_keywords)].score

\* C6: for identical html, url, final_url and language hint the call returns the
\* same parent, children, tree and keywords whatever order the deduplicated
\* candidate set is enumerated in.
SameOutputInEveryEnumerationOrder ==
    Returned =>
        \A seed \in HashSeeds :
            LET other == extract_keywords_from_html(page, url, final_url, lang_guess, seed)
            IN /\ other.parent = result.parent
               /\ other.children = result.children
               /\ other.tree = result.tree
               /\ other.keywords = result.keywords

\* score_keywords has just returned its list, scored
ScoreReturned == pc = "scored"

\* the density of keyword kw in a text of text_length words is at most 5%
DensityWithinLimit(kw, text_length) ==
    kw.freq * Len(Split(kw.text)) * 20 <= text_length

\* kws holds no keyword over the density limit or under max(1, 0.05% of text_length)
WithinLimits(kws, text_length) ==
    \A i \in 1..Len(kws) :
        /\ DensityWithinLimit(kws[i], text_length)
        /\ kws[i].freq >= 1
        /\ kws[i].freq * 10000 >= text_length * 5

\* the same with 0.05% of text_length rounded down to a whole number
WithinWholeLimits(kws, text_length) ==
    \A i \in 1..Len(kws) :
        /\ DensityWithinLimit(kws[i], text_length)
        /\ kws[i].freq >= 1
        /\ kws[i].freq >= (text_length * 5) \div 10000

NotScored ==
    {c \in Range(candidates) :
        /\ Count(Lower(all_text.s), c) > 0
        /\ \A i \in 1..Len(scored) : scored[i].text # c}

SortedByScore ==
    /\ ScoreReturned =>
          \A i, j \in 1..Len(scored) : i < j => scored[i].score >= scored[j].score
    /\ Returned =>
          \A i, j \in 1..Len(result.keywords) :
              i < j => result.keywords[i].score >= result.keywords[j].score

\* the position of candidate c in the candidate list
CandidateIndex(c) == CHOOSE i \in 1..Len(candidates) : candidates[i] = c

\* a result of several keywords, where score_keywords put a keyword ahead of one
\* that came earlier in the candidate list
SortMovedAKeyword ==
    /\ Returned
    /\ Len(result.keywords) >= 3
    /\ \E i, j \in 1..Len(scored) :
          /\ i < j
          /\ scored[i].score > scored[j].score
          /\ CandidateIndex(scored[i].text) > CandidateIndex(scored[j].text)

\* C9: every keyword of score_keywords' list has a score of at least 0.5; none
\* with a zero or negative score reaches that list or the result.
ScoredAtLeastHalf ==
    /\ ScoreReturned => \A i \in 1..Len(scored) : scored[i].score >= 50
    /\ Returned => \A i \in 1..Len(result.keywords) : result.keywords[i].score >= 50

\* score_keywords has left out a candidate that passed the frequency and density
\* filters, for its score alone
LowScoreRejected ==
    /\ ScoreReturned
    /\ scored # <<>>
    /\ \E c \in NotScored :
          /\ Count(Lower(all_text.s), c) >= (WordCount(all_text) * 5) \div 10000
          /\ Count(Lower(all_text.s), c) * Len(Split(c)) * 20 <= WordCount(all_text)

\* keywords i and j of scored are alike in frequency, word count, density and
\* semantic quality; i occurs in the title, j gets no boost
TitleTwin(i, j) ==
    /\ scored[i].freq = scored[j].freq
    /\ scored[i].density = scored[j].density
    /\ Len(Split(scored[i].text)) = Len(Split(scored[j].text))
    /\ in_text(scored[i].text, signals.title)
    /\ ~in_text(scored[j].text, signals.title)
    /\ ~in_text(scored[j].text, H1H2Text(signals))
    /\ ~in_text(scored[j].text, Join(" ", signals.url_tokens))
    /\ calculate_semantic_quality(scored[i].text) = calculate_semantic_quality(scored[j].text)

\* C10: of two keywords of score_keywords' list with equal frequency, word count,
\* density and semantic quality, one in the title and the other in none of title,
\* h1/h2 headings and URL tokens, the first has the strictly greater score, as
\* rounded to 2 decimals.
TitleBoostWins ==
    ScoreReturned =>
        \A i, j \in 1..Len(scored) : TitleTwin(i, j) => scored[i].score > scored[j].score

\* such a pair, the first keyword in the title only and the second in no heading
TitleOnlyTwinScored ==
    /\ ScoreReturned
    /\ \E i, j \in 1..Len(scored) :
          /\ TitleTwin(i, j)
          /\ scored[i].boost = 300
          /\ \A h \in 1..Len(signals.headings) :
                ~in_text(scored[j].text, signals.headings[h].text)

----------------------------------------------------------------------------
(* utils.build_hierarchy: the tree by token overlap *)

\* should_be_child by its last clause alone: similar enough
ChildBySimilarityOnly(parent_tokens, child_tokens) ==
    jaccard_similarity(parent_tokens, child_tokens).num * 10
        >= 3 * jaccard_similarity(parent_tokens, child_tokens).den

should_be_child(parent_tokens, child_tokens) ==
    \/ parent_tokens # {} /\ parent_tokens \subseteq child_tokens
    \/ parent_tokens # {} /\ child_tokens # {} /\ parent_tokens \cap child_tokens # {}
    \/ jaccard_similarity(parent_tokens, child_tokens).num * 10
          >= 3 * jaccard_similarity(parent_tokens, child_tokens).den

\* the children of node, pushed on the stack with their depth
Pushed(heap, stack, node, depth) ==
    stack \o [i \in 1..Len(heap[node].children) |->
                 [node |-> heap[node].children[i], depth |-> depth + 1]]

\* the nodes in the order the loop pops them from the stack, with their depths
RECURSIVE Visits(_, _)
Visits(heap, stack) ==
    IF stack = <<>> THEN <<>>
    ELSE <<stack[Len(stack)]>>
         \o Visits(heap, Pushed(heap, SubSeq(stack, 1, Len(stack) - 1),
                                stack[Len(stack)].node, stack[Len(stack)].depth))

\* best_depth; best is None for no best_parent yet
BestDepth(best) == IF best = None THEN 0 ELSE best.depth

\* lines 292-295 on the first match only: later matches never replace it
FirstMatchKept(heap, best, visit, tokens) ==
    IF should_be_child(heap[visit.node].tokens, tokens) /\ best = None
    THEN visit
    ELSE best

\* lines 292-295: the node replaces the best one if it matches, at no lesser depth
Visited(heap, best, visit, tokens) ==
    IF should_be_child(heap[visit.node].tokens, tokens) /\ visit.depth >= BestDepth(best)
    THEN visit
    ELSE best

\* best_parent after the first k visits
RECURSIVE BestParent(_, _, _, _)
BestParent(heap, visits, k, tokens) ==
    IF k = 0 THEN None
    ELSE Visited(heap, BestParent(heap, visits, k - 1, tokens), visits[k], tokens)

\* lines 300-303: the heap after the call, and the value returned
Attached(heap, best, candidate) ==
    IF best # None
    THEN [heap |-> AppendChild(heap, best.node, candidate), attached |-> TRUE]
    ELSE [heap |-> heap, attached |-> FALSE]

attach_to_best_parent(heap, root, candidate) ==
    Attached(heap,
             BestParent(heap, Visits(heap, <<[node |-> root, depth |-> 1]>>),
                        Len(Visits(heap, <<[node |-> root, depth |-> 1]>>)),
                        heap[candidate].tokens),
             candidate)

\* specificity_key(a) > specificity_key(b), as tuples
MoreSpecific(a, b) ==
    \/ Len(tokenize_phrase(a.text)) > Len(tokenize_phrase(b.text))
    \/ /\ Len(tokenize_phrase(a.text)) = Len(tokenize_phrase(b.text))
       /\ a.score > b.score

SameSpecificity(a, b) ==
    /\ Len(tokenize_phrase(a.text)) = Len(tokenize_phrase(b.text))
    /\ a.score = b.score

\* the place of item i in sorted(items, key=specificity_key, reverse=True): the
\* sort is stable, so items of equal keys keep their order
SpecificityPlace(items, i) ==
    1 + Cardinality({j \in 1..Len(items) :
                        \/ MoreSpecific(items[j], items[i])
                        \/ SameSpecificity(items[j], items[i]) /\ j < i})

SortBySpecificity(items) ==
    [k \in 1..Len(items) |->
        items[CHOOSE i \in 1..Len(items) : SpecificityPlace(items, i) = k]]

\* lines 332-336: the node stays where it was attached, or goes under the root
AttachedOrUnderRoot(heap, root, node, r) ==
    IF r.attached THEN r.heap ELSE AppendChild(heap, root, node)

\* one round of the loop (lines 330-336); the new node is the last of the heap
HierarchyStep(heap, root, item) ==
    AttachedOrUnderRoot(NewNode(heap, item.text, item.score), root, Len(heap) + 1,
                        attach_to_best_parent(NewNode(heap, item.text, item.score),
                                              root, Len(heap) + 1))

\* the heap after the first k rounds of the loop
RECURSIVE HierarchyLoop(_, _, _, _)
HierarchyLoop(heap, root, items, k) ==
    IF k = 0 THEN heap
    ELSE HierarchyStep(HierarchyLoop(heap, root, items, k - 1), root, items[k])

\* the root is object 1 of the heap returned
build_hierarchy(parent_data, others) ==
    [heap |-> HierarchyLoop(NewNode(<<>>, parent_data.text, parent_data.score), 1,
                            SortBySpecificity(others), Len(others)),
     root |-> 1]

----------------------------------------------------------------------------
(* Single calls of the functions, on arguments drawn from small sets *)

\* the longest keyword list a single call is given
MaxKeywords == 4

\* extract_keywords_from_html is not being run
NoPipeline ==
    /\ pc = "idle"
    /\ page = None
    /\ url = ""
    /\ final_url = ""
    /\ lang_guess = ""
    /\ hash_seed = "fwd"
    /\ signals = None
    /\ language = ""
    /\ all_text = None
    /\ candidates = <<>>
    /\ scored = <<>>
    /\ validated_keywords = <<>>
    /\ top_keywords = <<>>
    /\ parent = None
    /\ via_fallback = FALSE
    /\ other_keywords = <<>>
    /\ nodes = <<>>
    /\ url_root = None
    /\ sub_parents = <<>>
    /\ result = None

\* a keyword dict as score_keywords makes them (score and density in 1/100)
Keyword(text, score, freq, density) ==
    [text |-> text, score |-> score, freq |-> freq, density |-> density,
     boost |-> 100, semantic_score |-> 100]

\* the lists of at most n items of pool, in the order of pool
ListsFrom(pool, n) ==
    {SelectSeqIdx(pool, S) : S \in {T \in SUBSET (1..Len(pool)) : Cardinality(T) <= n}}

\* scored keywords, best first, at and around each limit of the validator
ValidatorKeywords ==
    <<Keyword("solar panel", 612, 2, 500),
      Keyword("smart meter", 400, 4, 501),
      Keyword("Read More guides", 350, 3, 60),
      Keyword("heat pump", 300, 1, 40),
      Keyword("Page", 200, 5, 80),
      Keyword("solar", 180, 2, 90),
      Keyword("wind turbine", 150, 2, 120),
      Keyword("energy storage", 149, 3, 100)>>

ValidateCalls ==
    {[fn |-> "validate_keyword_quality", keywords |-> ks] :
        ks \in ListsFrom(ValidatorKeywords, MaxKeywords)}

\* the tokens of the sets given to jaccard_similarity
JaccardTokens == {"solar", "panel", "wind"}

JaccardCalls ==
    {[fn |-> "jaccard_similarity", a |-> a, b |-> b] :
        a \in SUBSET JaccardTokens, b \in SUBSET JaccardTokens}

\* texts with no cue, one cue, cues of two categories, a cue inside a longer
\* word, and capitals
IntentTexts ==
    {"", "solar panel", "buy solar panel", "solar panel guide", "login",
     "How To Buy", "Shop Login", "contact guide", "workshop", "somehow",
     "home price guide"}

IntentCalls == {[fn |-> "infer_intent", keyword |-> t] : t \in IntentTexts}

\* validated keywords, best first: parents that may be chosen, a single word, a
\* phrase of boilerplate terms, a phrase of generic terms, a phrase of both
ParentKeywords ==
    <<Keyword("wind turbine", 1098, 20, 160),
      Keyword("privacy policy", 950, 5, 80),
      Keyword("solar", 846, 8, 60),
      Keyword("real estate", 700, 6, 90),
      Keyword("solar panel", 522, 2, 30),
      Keyword("support team", 400, 3, 50),
      Keyword("energy storage", 174, 2, 30)>>

ParentTitles == {"", "Solar Panel Privacy Policy", "REAL ESTATE and solar"}

ParentHeadings == {"", "Energy Storage"}

ParentUrlTokens == {"example solar", "example privacy"}

\* validated keywords, best first, of the same rank in exact arithmetic: the first
\* has 0.02 more of score and one occurrence less than the others
TiedKeywords ==
    <<Keyword("heat pump", 932, 6, 100),
      Keyword("smart meter", 930, 7, 100),
      Keyword("wind turbine", 930, 7, 100)>>

TiedUrlTokens == {"example com", "example privacy", "example heat pump privacy"}

ChooseParentCalls ==
    {[fn |-> "choose_parent_keyword", scored_keywords |-> ks, title |-> t,
      h1_h2_text |-> h, url_tokens |-> u] :
        ks \in ListsFrom(ParentKeywords, MaxKeywords), t \in ParentTitles,
        h \in ParentHeadings, u \in ParentUrlTokens}
    \cup {[fn |-> "choose_parent_keyword", scored_keywords |-> ks, title |-> "",
           h1_h2_text |-> "", url_tokens |-> u] :
              ks \in ListsFrom(TiedKeywords, MaxKeywords), u \in TiedUrlTokens}

\* keywords other than the parent, best first: of one theme, of several themes,
\* of a theme by a trigger inside a longer word ("paint"), and of no theme
GroupedKeywords ==
    <<Keyword("real ai chat", 640, 4, 90),
      Keyword("chatbot automation", 500, 3, 80),
      Keyword("ai tools", 400, 3, 80),
      Keyword("online chat", 350, 2, 50),
      Keyword("property investment", 300, 2, 50),
      Keyword("solar paint", 300, 2, 50),
      Keyword("business platform", 250, 2, 40),
      Keyword("wind turbine", 200, 2, 40)>>

CreateSubParentsCalls ==
    {[fn |-> "create_sub_parents", keywords |-> ks, parent_text |-> "solar panel"] :
        ks \in ListsFrom(GroupedKeywords, MaxKeywords)}

\* keywords other than the parent, best first: phrases that share tokens with
\* the parent and with each other, and phrases that share none
HierarchyKeywords ==
    <<Keyword("solar panel cost", 700, 4, 90),
      Keyword("wind turbine", 600, 4, 80),
      Keyword("solar panel installation", 500, 3, 80),
      Keyword("solar", 450, 6, 50),
      Keyword("wind", 300, 5, 50),
      Keyword("roof solar panel installation", 250, 2, 50),
      Keyword("heat pump", 200, 2, 40)>>

HierarchyParents ==
    {Keyword("solar panel", 900, 5, 100), Keyword("wind farm", 800, 5, 100)}

BuildHierarchyCalls ==
    {[fn |-> "build_hierarchy", parent_data |-> p, other_keywords |-> ks] :
        p \in HierarchyParents, ks \in ListsFrom(HierarchyKeywords, MaxKeywords)}

BoostKeywords == {"solar panel", "Solar", "wind"}

BoostTitles == {"", "Best SOLAR Panels", "Wind and solar"}

BoostHeadings == {"", "Solar panel prices", "windmill"}

BoostUrlTokens == {"example com", "example solar panel", "rewind solar"}

ProminenceBoostCalls ==
    {[fn |-> "calculate_prominence_boost", keyword |-> k, title |-> t,
      h1_h2_text |-> h, url_tokens |-> u] :
        k \in BoostKeywords, t \in BoostTitles, h \in BoostHeadings,
        u \in BoostUrlTokens}

\* words of filler around the text: densities of 80%, 10%, 5%, 4% and 2% for
\* the phrase that occurs twice
ScorePads == {0, 35, 75, 95, 195}

ScoreTexts == {[s |-> "Solar panel solar panel wind", pad |-> p] : p \in ScorePads}

ScoreCandidates == <<"solar panel", "solar", "panel solar panel", "wind", "turbine">>

ScoreKeywordsCalls ==
    {[fn |-> "score_keywords", candidates |-> ScoreCandidates, text |-> t,
      title |-> ti, h1_h2_text |-> "", url_tokens |-> <<"example", "com">>] :
        t \in ScoreTexts, ti \in {"", "Solar Panel"}}

\* texts of no token, of one and of two tokens, with a repeated phrase, with a
\* two-letter token, with stop phrases and low-value words, and with words so
\* long that three of them pass 50 characters
CandidateTexts ==
    {"", "the and", "Solar", "ai tools", "Solar panels and solar panels",
     "Privacy policy page for the home page", "wind farm site map",
     "counterrevolutionaries electroencephalography incomprehensibilities"}

GenerateCandidatesCalls ==
    {[fn |-> "generate_candidates", text |-> [s |-> t, pad |-> 0], hash_seed |-> h] :
        t \in CandidateTexts, h \in HashSeeds}

\* the tokens of the sets given to should_be_child
ChildTokens == {"solar", "panel", "wind", "farm"}

ShouldBeChildCalls ==
    {[fn |-> "should_be_child", parent_tokens |-> p, child_tokens |-> c] :
        p \in SUBSET ChildTokens, c \in SUBSET ChildTokens}

Calls ==
    ValidateCalls
    \cup JaccardCalls
    \cup IntentCalls
    \cup ChooseParentCalls
    \cup CreateSubParentsCalls
    \cup BuildHierarchyCalls
    \cup ProminenceBoostCalls
    \cup ScoreKeywordsCalls
    \cup GenerateCandidatesCalls
    \cup ShouldBeChildCalls

CallInit ==
    /\ call \in Calls
    /\ ret = None
    /\ NoPipeline
    /\ NoRequest

\* the value a call returns, boxed: None stands for a call that has not returned
Returning(value) == [value |-> value]

CallValidateKeywordQuality ==
    /\ call.fn = "validate_keyword_quality"
    /\ ret = None
    /\ ret' = Returning(validate_keyword_quality(call.keywords))
    /\ UNCHANGED <<call, pipeline_vars, handler_vars>>

CallJaccardSimilarity ==
    /\ call.fn = "jaccard_similarity"
    /\ ret = None
    /\ ret' = Returning(jaccard_similarity(call.a, call.b))
    /\ UNCHANGED <<call, pipeline_vars, handler_vars>>

CallInferIntent ==
    /\ call.fn = "infer_intent"
    /\ ret = None
    /\ ret' = Returning(infer_intent(call.keyword))
    /\ UNCHANGED <<call, pipeline_vars, handler_vars>>

CallChooseParentKeyword ==
    /\ call.fn = "choose_parent_keyword"
    /\ ret = None
    /\ ret' = Returning(choose_parent_keyword(call.scored_keywords, call.title,
                                              call.h1_h2_text, call.url_tokens))
    /\ UNCHANGED <<call, pipeline_vars, handler_vars>>

\* the value is the list of the sub-parents and the heap they and their children
\* are in
CallCreateSubParents ==
    /\ call.fn = "create_sub_parents"
    /\ ret = None
    /\ ret' = Returning(create_sub_parents(<<>>, call.keywords, call.parent_text))
    /\ UNCHANGED <<call, pipeline_vars, handler_vars>>

\* the value is the root and the heap its tree is in
CallBuildHierarchy ==
    /\ call.fn = "build_hierarchy"
    /\ ret = None
    /\ ret' = Returning(build_hierarchy(call.parent_data, call.other_keywords))
    /\ UNCHANGED <<call, pipeline_vars, handler_vars>>

CallCalculateProminenceBoost ==
    /\ call.fn = "calculate_prominence_boost"
    /\ ret = None
    /\ ret' = Returning(calculate_prominence_boost(call.keyword, call.title,
                                                   call.h1_h2_text, call.url_tokens))
    /\ UNCHANGED <<call, pipeline_vars, handler_vars>>

CallScoreKeywords ==
    /\ call.fn = "score_keywords"
    /\ ret = None
    /\ ret' = Returning(score_keywords(call.candidates, call.text, call.title,
                                       call.h1_h2_text, call.url_tokens))
    /\ UNCHANGED <<call, pipeline_vars, handler_vars>>

CallGenerateCandidates ==
    /\ call.fn = "generate_candidates"
    /\ ret = None
    /\ ret' = Returning(generate_candidates(call.text, call.hash_seed))
    /\ UNCHANGED <<call, pipeline_vars, handler_vars>>

CallShouldBeChild ==
    /\ call.fn = "should_be_child"
    /\ ret = None
    /\ ret' = Returning(should_be_child(call.parent_tokens, call.child_tokens))
    /\ UNCHANGED <<call, pipeline_vars, handler_vars>>

CallNext ==
    \/ CallValidateKeywordQuality
    \/ CallJaccardSimilarity
    \/ CallInferIntent
    \/ CallChooseParentKeyword
    \/ CallCreateSubParents
    \/ CallBuildHierarchy
    \/ CallCalculateProminenceBoost
    \/ CallScoreKeywords
    \/ CallGenerateCandidates
    \/ CallShouldBeChild

CallSpec == CallInit /\ [][CallNext]_vars

----------------------------------------------------------------------------
(* Properties of the single functions *)

\* the call of fn has returned
CallReturned(fn) == call.fn = fn /\ ret # None

\* what the validator is to keep: score >= 1.5, freq >= 2, density <= 5.0, no
\* blacklisted phrase inside the lowercased text, no blacklisted single word
SurvivesValidation(kw) ==
    /\ kw.score >= 150
    /\ kw.freq >= 2
    /\ kw.density <= 500
    /\ \A i \in 1..Len(generic_patterns) : ~Contains(Lower(kw.text), generic_patterns[i])
    /\ Len(Split(kw.text)) = 1 => Lower(kw.text) \notin common_single_words

\* C11: validate_keyword_quality returns the keywords of its input with score >=
\* 1.5, freq >= 2, density <= 5.0, no generic phrase as a case-insensitive
\* substring and, if single-word, not in the common-single-word list: exactly
\* those, unmodified, in their input order.
ValidatorKeepsExactlyTheValid ==
    CallReturned("validate_keyword_quality") =>
        ret.value = SelectSeq(call.keywords, SurvivesValidation)

\* a call on three keywords or more that dropped the second and kept the third
ValidatorDroppedTheMiddleOne ==
    /\ CallReturned("validate_keyword_quality")
    /\ Len(call.keywords) >= 3
    /\ Len(ret.value) >= 2
    /\ ret.value[1] = call.keywords[1]
    /\ ret.value[2] = call.keywords[3]
    /\ call.keywords[2].score >= 150

----------------------------------------------------------------------------
(* Further properties of the result *)

\* entry i of the keywords list is validated keyword i
SameKeyword(entry, kw) ==
    entry.text = kw.text /\ entry.score = kw.score /\ entry.freq = kw.freq

\* C12: the keywords list of the result has at most 30 entries, which are the
\* first min(30, n) of the n validated keywords in their order, and no validated
\* keyword left out has a strictly higher score than one of the list.
KeywordsAreTheFirstThirty ==
    Returned =>
        /\ Len(result.keywords) <= 30
        /\ Len(result.keywords) =
              (IF Len(validated_keywords) < 30 THEN Len(validated_keywords) ELSE 30)
        /\ \A i \in 1..Len(result.keywords) :
              SameKeyword(result.keywords[i], validated_keywords[i])
        /\ \A j \in (Len(result.keywords) + 1)..Len(validated_keywords) :
              \A i \in 1..Len(result.keywords) :
                  validated_keywords[j].score <= result.keywords[i].score

\* a result for a page with more than 30 validated keywords of different scores
MoreThanThirtyValidated ==
    /\ Returned
    /\ Len(validated_keywords) > 30
    /\ Len(result.keywords) = 30
    /\ validated_keywords[1].score > validated_keywords[Len(validated_keywords)].score

\* C13: jaccard_similarity(A, B) is |A n B| / |A u B| and lies in [0, 1]; it is 1
\* for A = B non-empty, 0 for A and B disjoint and non-empty, and 0.0 when A or B
\* is empty.
JaccardIsOverlapOverUnion ==
    CallReturned("jaccard_similarity") =>
        LET A == call.a
            B == call.b
            x == ret.value
        IN /\ x.den > 0 /\ 0 <= x.num /\ x.num <= x.den
           /\ (A # {} /\ B # {}) =>
                 x.num * Cardinality(A \cup B) = Cardinality(A \cap B) * x.den
           /\ (A = B /\ A # {}) => x.num = x.den
           /\ (A # {} /\ B # {} /\ A \cap B = {}) => x.num = 0
           /\ (A = {} \/ B = {}) => x.num = 0

\* a call on two different sets that overlap, one inside the other
JaccardOfNestedSets ==
    /\ CallReturned("jaccard_similarity")
    /\ call.a # call.b
    /\ call.a \subseteq call.b
    /\ call.a # {}
    /\ 0 < ret.value.num
    /\ ret.value.num < ret.value.den

\* some cue of the list is inside the lowercased text
HasCue(cues, text) == \E i \in 1..Len(cues) : Contains(Lower(text), cues[i])

\* C14: infer_intent returns transactional, informational or navigational:
\* transactional if a transactional cue is a substring of the lowercased text,
\* else informational if an informational cue is, else navigational if a
\* navigational cue is, else informational.
IntentByPriority ==
    CallReturned("infer_intent") =>
        /\ ret.value \in {"transactional", "informational", "navigational"}
        /\ ret.value =
             (IF HasCue(transactional_words, call.keyword) THEN "transactional"
              ELSE IF HasCue(informational_words, call.keyword) THEN "informational"
              ELSE IF HasCue(navigational_words, call.keyword) THEN "navigational"
              ELSE "informational")
        /\ (/\ HasCue(transactional_words, call.keyword)
            /\ \/ HasCue(informational_words, call.keyword)
               \/ HasCue(navigational_words, call.keyword))
              => ret.value = "transactional"

\* a text with a transactional and an informational cue, found transactional
IntentOfMixedCues ==
    /\ CallReturned("infer_intent")
    /\ HasCue(transactional_words, call.keyword)
    /\ HasCue(informational_words, call.keyword)
    /\ ret.value = "transactional"

\* the three conditions on the tokens of a parent
SomeTokenOutside(tokens, terms) == \E i \in 1..Len(tokens) : tokens[i] \notin terms

MultiWord(tokens) == Len(tokens) >= 2

FitForParent(tokens) ==
    /\ MultiWord(tokens)
    /\ SomeTokenOutside(tokens, SECTION_TERMS)
    /\ SomeTokenOutside(tokens, GENERIC_BASE_TERMS)

\* C15: a keyword that choose_parent_keyword returns is one of the list, with at
\* least 2 tokens, a token that is no boilerplate-section term and a token that
\* is no generic base term.
ChosenParentIsFit ==
    (CallReturned("choose_parent_keyword") /\ ret.value # None) =>
        /\ \E i \in 1..Len(call.scored_keywords) : call.scored_keywords[i] = ret.value
        /\ FitForParent(tokenize_phrase(ret.value.text))

\* keyword i of the call's list has a higher score than the parent returned
Outscores(i) == call.scored_keywords[i].score > ret.value.score

TokensOfKeyword(i) == tokenize_phrase(call.scored_keywords[i].text)

\* a parent returned from a list where a single word, a boilerplate phrase and a
\* generic phrase all outscore it, the first two being in the title
UnfitKeywordsPassedOver ==
    /\ CallReturned("choose_parent_keyword")
    /\ ret.value # None
    /\ \E i, j, k \in 1..Len(call.scored_keywords) :
          /\ Outscores(i) /\ Outscores(j) /\ Outscores(k)
          /\ ~MultiWord(TokensOfKeyword(i))
          /\ MultiWord(TokensOfKeyword(j))
          /\ ~SomeTokenOutside(TokensOfKeyword(j), SECTION_TERMS)
          /\ MultiWord(TokensOfKeyword(k))
          /\ ~SomeTokenOutside(TokensOfKeyword(k), GENERIC_BASE_TERMS)
          /\ in_text(call.scored_keywords[i].text, call.title)
          /\ in_text(call.scored_keywords[j].text, call.title)

\* the keywords of the call's list that may be parents
FitKeywords == {i \in 1..Len(call.scored_keywords) : FitForParent(TokensOfKeyword(i))}

\* keyword i is, whatever the case, inside the title or the heading text
InTitleOrHeadings(i) ==
    \/ Contains(Lower(call.title), Lower(call.scored_keywords[i].text))
    \/ Contains(Lower(call.h1_h2_text), Lower(call.scored_keywords[i].text))

SeededKeywords == {i \in FitKeywords : InTitleOrHeadings(i)}

RankOfKeyword(i) ==
    parent_rank(call.scored_keywords[i], call.title, call.h1_h2_text, call.url_tokens)

\* the parent returned is a keyword of the set S that none of S outranks
BestByRank(S, rank) ==
    \E i \in S : /\ ret.value = call.scored_keywords[i]
                 /\ \A j \in S : ~FLess(rank[i], rank[j])

\* the parent returned is a keyword of the set S, of the highest rank in S
BestOf(S) == BestByRank(S, [i \in S |-> RankOfKeyword(i)])

\* C16: if some eligible keyword is in the title or the heading text, the parent
\* returned is the best-ranked of these, whatever the rank of the eligible
\* keywords outside; if none is, it is the best-ranked of all the eligible ones.
SeededKeywordsComeFirst ==
    CallReturned("choose_parent_keyword") =>
        IF SeededKeywords # {} THEN BestOf(SeededKeywords)
        ELSE IF FitKeywords # {} THEN BestOf(FitKeywords)
        ELSE ret.value = None

\* a seeded parent returned although an eligible keyword outside the title and
\* the headings has a higher rank
SeededParentOutranked ==
    /\ CallReturned("choose_parent_keyword")
    /\ \E i \in SeededKeywords :
          /\ ret.value = call.scored_keywords[i]
          /\ \E j \in FitKeywords \ SeededKeywords :
                 FLess(RankOfKeyword(i), RankOfKeyword(j))

\* the themes in their fixed order
ThemesInOrder ==
    <<theme_ai_related, theme_real_estate, theme_social_media, theme_business,
      theme_technology>>

\* the number of the first theme with a trigger inside the text; 6 if there is none
ThemeOf(text) ==
    Min({t \in 1..5 : HasCue(ThemesInOrder[t], text)} \cup {6})

\* the sub-parents returned, as dicts
SubParentDicts ==
    [i \in 1..Len(ret.value.sub_parents) |->
        to_dict(ret.value.heap, ret.value.sub_parents[i])]

\* the texts of all the nodes returned: each sub-parent, then its children
GroupedTexts ==
    LET RECURSIVE All(_)
        All(i) == IF i > Len(SubParentDicts) THEN <<>>
                  ELSE TextsOf(SubParentDicts[i]) \o All(i + 1)
    IN All(1)

\* a sub-parent and its children: keywords of the one theme, the first of them
\* with the highest score, the children leaves; no children if of no theme
WellGrouped(sp) ==
    /\ \A c \in 1..Len(sp.children) :
          /\ ThemeOf(sp.children[c].text) = ThemeOf(sp.text)
          /\ sp.children[c].score <= sp.score
          /\ sp.children[c].children = <<>>
    /\ ThemeOf(sp.text) = 6 => sp.children = <<>>

OfSeveralThemes(text) ==
    Cardinality({t \in 1..5 : HasCue(ThemesInOrder[t], text)}) >= 2

TimesOwned(n) ==
    Cardinality({pk \in (1..Len(nodes)) \X (1..Len(nodes)) :
                    /\ pk[2] <= Len(nodes[pk[1]].children)
                    /\ nodes[pk[1]].children[pk[2]] = n})

\* the objects below node, to the given depth
RECURSIVE Below(_, _)
Below(node, depth) ==
    IF depth = 0 THEN {}
    ELSE LET kids == Range(nodes[node].children)
         IN kids \cup UNION {Below(k, depth - 1) : k \in kids}

\* C18: a tree returned with a non-null parent has the URL node of score 0 as
\* root, with one child, the parent node; the children of the parent are the
\* sub-parents; the children of a sub-parent are leaves; every node but the root
\* is the child of exactly one node, once, and the root of none.
TreeHasThreeLevels ==
    (Returned /\ result.parent # None) =>
        /\ nodes[url_root].text = url
        /\ nodes[url_root].score = 0
        /\ Len(nodes[url_root].children) = 1
        /\ LET parent_node == nodes[url_root].children[1]
           IN /\ nodes[parent_node].text = result.parent.text
              /\ nodes[parent_node].children = sub_parents
              /\ \A i \in 1..Len(sub_parents) :
                    \A c \in 1..Len(nodes[sub_parents[i]].children) :
                        nodes[nodes[sub_parents[i]].children[c]].children = <<>>
        /\ TimesOwned(url_root) = 0
        /\ \A n \in (1..Len(nodes)) \ {url_root} : TimesOwned(n) = 1
        /\ \A n \in 1..Len(nodes) : n \notin Below(n, Len(nodes))
        /\ Below(url_root, 3) = (1..Len(nodes)) \ {url_root}
        /\ result.tree = to_dict(nodes, url_root)

\* a returned tree where the chosen parent has several sub-parents and one of
\* them several leaves
TreeWithSeveralLeaves ==
    /\ Returned
    /\ result.parent # None
    /\ ~via_fallback
    /\ Len(sub_parents) >= 2
    /\ \E i \in 1..Len(sub_parents) : Len(nodes[sub_parents[i]].children) >= 2

\* the node that has object n among its children, in the heap returned
OwnerOf(n) ==
    CHOOSE p \in 1..Len(ret.value.heap) : n \in Range(ret.value.heap[p].children)

\* the depth of object n in the tree returned: 1 for the root
RECURSIVE DepthOf(_)
DepthOf(n) == IF n = ret.value.root THEN 1 ELSE 1 + DepthOf(OwnerOf(n))

\* the objects made before n that match n under should_be_child: the nodes of
\* the tree at the time n is attached
MatchesOf(n) ==
    {m \in 1..(n - 1) :
        should_be_child(ret.value.heap[m].tokens, ret.value.heap[n].tokens)}

TokenCount(n) == Len(tokenize_phrase(ret.value.heap[n].text))

\* C19: build_hierarchy takes the keywords in the order of (token count
\* descending, score descending) and attaches each once: under a node of the
\* greatest depth among the nodes of the tree so far that match it under
\* should_be_child, or under the root if none matches; the tree has
\* 1 + len(other_keywords) nodes.
DeepestMatchOwnsEachKeyword ==
    CallReturned("build_hierarchy") =>
        LET heap == ret.value.heap
        IN /\ Len(heap) = 1 + Len(call.other_keywords)
           /\ heap[1].text = call.parent_data.text
           /\ \A k \in 1..Len(call.other_keywords) :
                 Cardinality({n \in 2..Len(heap) :
                                 heap[n].text = call.other_keywords[k].text}) = 1
           /\ \A n \in 2..Len(heap) :
                 /\ Cardinality({pk \in (1..Len(heap)) \X (1..Len(heap)) :
                                    /\ pk[2] <= Len(heap[pk[1]].children)
                                    /\ heap[pk[1]].children[pk[2]] = n}) = 1
                 /\ IF MatchesOf(n) = {} THEN OwnerOf(n) = ret.value.root
                    ELSE /\ OwnerOf(n) \in MatchesOf(n)
                         /\ \A m \in MatchesOf(n) : DepthOf(m) <= DepthOf(OwnerOf(n))
           /\ \A n, o \in 2..Len(heap) :
                 n < o => \/ TokenCount(n) > TokenCount(o)
                          \/ /\ TokenCount(n) = TokenCount(o)
                             /\ heap[n].score >= heap[o].score

\* a call that attached a keyword under a node two levels below the root,
\* another under the root for want of a match, and took the keywords in another
\* order than given
KeywordAttachedDeep ==
    /\ CallReturned("build_hierarchy")
    /\ \E n, o \in 2..Len(ret.value.heap) :
          /\ DepthOf(n) >= 4
          /\ MatchesOf(o) = {}
    /\ ret.value.heap[2].text # call.other_keywords[1].text

-----------------------------------------------------------------------------
(* main.extract_html: the /extract_html handler, the semaphore and the pool *)

\* os.cpu_count() on the host
CpuCount == 1

\* _WORKERS = min(32, (os.cpu_count() or 4))
WORKERS ==
    LET count == IF CpuCount = 0 THEN 4 ELSE CpuCount
    IN IF count < 32 THEN count ELSE 32

\* asyncio.Semaphore(_WORKERS * 2): the initial value
SemaphoreValue == WORKERS * 2

\* the clients: each has at most one request outstanding, and there is one more
\* of them than there are permits
Clients == 1..(SemaphoreValue + 1)

\* request.html
Htmls == {"", "  ", "<p>solar</p>"}

\* MAX_HTML_MB in the environment
MaxHtmlMbs == {0, 5}

\* int(max_html_mb * 1024 * 1024)
MaxBytes(max_html_mb) == max_html_mb * 1024 * 1024

\* the handler answers: HTTPException(status_code=code), or ExtractResponse
Answered(codes, code) == codes \cup {code}

\* Semaphore.locked: no permit left, or somebody is still in the queue
locked(value, ws) == value = 0 \/ ws # <<>>

\* the places in the queue whose future is not done
NotDone(pcs, ws) == {i \in 1..Len(ws) : pcs[ws[i]] = "waiting"}

\* Semaphore._wake_up_next: the first waiter whose future is not done takes a
\* permit and has its future set
wake_up_next(pcs, value, ws) ==
    IF NotDone(pcs, ws) = {} THEN [req_pc |-> pcs, permits |-> value]
    ELSE [req_pc |-> [pcs EXCEPT ![ws[Min(NotDone(pcs, ws))]] = "woken"],
          permits |-> value - 1]

\* the dispatch block left with the permit kept
ExitKeepingPermit(pcs, value, ws) == [req_pc |-> pcs, permits |-> value]

\* Semaphore.release, called by `async with` on every exit of the block
release(pcs, value, ws) == wake_up_next(pcs, value + 1, ws)

\* the rest of Semaphore.acquire once the future is set
AfterWait(pcs, value, ws) ==
    IF value > 0 THEN wake_up_next(pcs, value, ws)
    ELSE [req_pc |-> pcs, permits |-> value]

\* the queue without request r
Without(ws, r) == SelectSeq(ws, LAMBDA w : w # r)

\* a request arrives and the handler runs to its first suspension: it is refused,
\* or takes a permit and submits the task, or queues for a permit
Receive(r, html, max_html_mb) ==
    /\ req_pc # <<>>
    /\ req_pc[r] = "idle"
    /\ IF Strip(html) = "" \/ Len(html) > MaxBytes(max_html_mb)
       THEN /\ outcome' = Answered(outcome, 500)
            /\ UNCHANGED <<req_pc, permits, waiters, pool_pending>>
       ELSE /\ UNCHANGED outcome
            /\ IF ~locked(permits, waiters)
               THEN /\ permits' = permits - 1
                    /\ pool_pending' = Append(pool_pending, r)
                    /\ req_pc' = [req_pc EXCEPT ![r] = "queued"]
                    /\ UNCHANGED waiters
               ELSE /\ waiters' = Append(waiters, r)
                    /\ req_pc' = [req_pc EXCEPT ![r] = "waiting"]
                    /\ UNCHANGED <<permits, pool_pending>>
    /\ UNCHANGED <<pool_running, pipeline_vars, call_vars>>

\* a woken request runs again: it leaves the queue, passes a spare permit on and
\* submits its task
Acquired(r) ==
    /\ req_pc # <<>>
    /\ req_pc[r] = "woken"
    /\ waiters' = Without(waiters, r)
    /\ permits' = AfterWait(req_pc, permits, Without(waiters, r)).permits
    /\ req_pc' = [AfterWait(req_pc, permits, Without(waiters, r)).req_pc
                     EXCEPT ![r] = "queued"]
    /\ pool_pending' = Append(pool_pending, r)
    /\ UNCHANGED <<pool_running, outcome, pipeline_vars, call_vars>>

\* a free worker process takes the oldest submitted task
StartTask(r) ==
    /\ pool_pending # <<>>
    /\ r = Head(pool_pending)
    /\ Cardinality(pool_running) < WORKERS
    /\ pool_pending' = Tail(pool_pending)
    /\ pool_running' = pool_running \cup {r}
    /\ req_pc' = [req_pc EXCEPT ![r] = "running"]
    /\ UNCHANGED <<permits, waiters, outcome, pipeline_vars, call_vars>>

\* _extract_task ends in its worker: it returns or it raises
FinishTask(r, raised) ==
    /\ r \in pool_running
    /\ pool_running' = pool_running \ {r}
    /\ req_pc' = [req_pc EXCEPT ![r] = IF raised THEN "raised" ELSE "returned"]
    /\ UNCHANGED <<permits, waiters, pool_pending, outcome, pipeline_vars, call_vars>>

\* the handler runs again with the task's result: it leaves the dispatch block
\* and answers
Resume(r) ==
    /\ req_pc # <<>>
    /\ req_pc[r] \in {"returned", "raised"}
    /\ permits' = release(req_pc, permits, waiters).permits
    /\ req_pc' = [release(req_pc, permits, waiters).req_pc EXCEPT ![r] = "idle"]
    /\ outcome' = Answered(outcome, IF req_pc[r] = "raised" THEN 500 ELSE 200)
    /\ UNCHANGED <<waiters, pool_pending, pool_running, pipeline_vars, call_vars>>

HandlerInit ==
    /\ NoPipeline
    /\ NoCall
    /\ req_pc = [r \in Clients |-> "idle"]
    /\ permits = SemaphoreValue
    /\ waiters = <<>>
    /\ pool_pending = <<>>
    /\ pool_running = {}
    /\ outcome = {}

HandlerNext ==
    \/ \E r \in Clients, html \in Htmls, max_html_mb \in MaxHtmlMbs :
           Receive(r, html, max_html_mb)
    \/ \E r \in Clients : Acquired(r)
    \/ \E r \in Clients : StartTask(r)
    \/ \E r \in Clients, raised \in BOOLEAN : FinishTask(r, raised)
    \/ \E r \in Clients : Resume(r)

\* what happens to the request of client r without the client: the event loop
\* runs its handler when it is ready, a worker takes its task, the task ends
Progress(r) ==
    \/ Acquired(r)
    \/ StartTask(r)
    \/ \E raised \in BOOLEAN : FinishTask(r, raised)
    \/ Resume(r)

\* every ready handler is run, a free worker takes the oldest task and a task
\* ends; clients need not send anything
HandlerFairness == \A r \in Clients : WF_vars(Progress(r))

HandlerSpec == HandlerInit /\ [][HandlerNext]_vars /\ HandlerFairness

-----------------------------------------------------------------------------
(* Properties of the handler *)

\* the requests that hold a permit
Holders == {r \in Clients : req_pc[r] \in {"woken", "queued", "running", "returned", "raised"}}

PermitsAccounted ==
    /\ Cardinality(Holders) <= 2 * WORKERS
    /\ Cardinality(pool_running) <= WORKERS
    /\ permits + Cardinality(Holders) = 2 * WORKERS
    /\ (\A r \in Clients : req_pc[r] = "idle") => permits = 2 * WORKERS

\* leaving the dispatch block gives the permit back: to the semaphore, or to the
\* request at the head of the queue
PermitGivenBack ==
    \A r \in Clients :
        (req_pc[r] \in {"returned", "raised"} /\ req_pc'[r] = "idle") =>
            \/ permits' = permits + 1
            \/ /\ permits' = permits
               /\ \E w \in Clients : req_pc[w] = "waiting" /\ req_pc'[w] = "woken"

\* C20: at most 2*W requests hold a permit and at most W tasks run in workers;
\* every exit of the dispatch block, by return or by exception, gives the permit
\* back, so the permits are all there when no request is in flight and a request
\* waiting for a permit eventually submits its task
DispatchIsBoundedAndFair ==
    /\ []PermitsAccounted
    /\ [][PermitGivenBack]_vars
    /\ \A r \in Clients : (req_pc[r] = "waiting") ~> (req_pc[r] = "queued")

\* every permit is taken, every worker is busy, a task has raised, a request
\* waits, and earlier requests were answered with a result and with an error
DispatchSaturated ==
    /\ req_pc # <<>>
    /\ Cardinality(Holders) = 2 * WORKERS
    /\ Cardinality(pool_running) = WORKERS
    /\ \E r \in Clients : req_pc[r] = "raised"
    /\ \E r \in Clients : req_pc[r] = "waiting"
    /\ outcome = {200, 500}

\* the handler is entered with a html that is empty, blank or over the limit
RefusedRequest ==
    \E r \in Clients, html \in Htmls, max_html_mb \in MaxHtmlMbs :
        /\ Strip(html) = "" \/ Len(html) > MaxBytes(max_html_mb)
        /\ Receive(r, html, max_html_mb)

\* C21: a request whose html is empty, blank or larger than the limit is answered
\* with status 400 and no extraction task is dispatched for it
RefusedWithStatus400 ==
    [][RefusedRequest =>
           /\ 400 \in outcome'
           /\ UNCHANGED <<permits, waiters, pool_pending, pool_running>>]_vars

\* the keyword of the call occurs in the text, whatever the case of either
OccursIn(text) == Contains(Lower(text), Lower(call.keyword))

\* the places, of title, H1/H2 text and URL tokens, the keyword of the call occurs in
PlacesOfKeyword ==
    {p \in {"title", "h1_h2_text", "url_tokens"} : OccursIn(call[p])}

\* the multiplier of a place, in 1/10
MultiplierOf(place) ==
    CASE place = "title" -> 30
      [] place = "h1_h2_text" -> 18
      [] place = "url_tokens" -> 15

\* the product over a set of places, from 1.0, in 1/10
RECURSIVE ProductOver(_)
ProductOver(places) ==
    IF places = {} THEN 10
    ELSE LET p == CHOOSE q \in places : TRUE
         IN (ProductOver(places \ {p}) * MultiplierOf(p)) \div 10

FreqIn(c, candidate) == Count(Lower(c.text.s), candidate)

\* the candidate gets as far as the density penalty (line 360) in the call
ReachesPenalty(c, candidate) ==
    /\ FreqIn(c, candidate) > 0
    /\ FreqIn(c, candidate) >= MinFreqThreshold(WordCount(c.text))
    /\ ~DensityTooHigh(FreqIn(c, candidate), Len(Split(candidate)), WordCount(c.text))

\* its density penalty, as a fraction of 10 * the word count of the text
PenaltyIn(c, candidate) ==
    DensityPenalty(FreqIn(c, candidate), Len(Split(candidate)), WordCount(c.text))

\* its final score, in 1/1000000
FinalScoreIn(c, candidate) ==
    FinalScore(FreqIn(c, candidate), Len(Split(candidate)), WordCount(c.text),
               calculate_prominence_boost(candidate, c.title, c.h1_h2_text,
                                          Join(" ", c.url_tokens)),
               calculate_semantic_quality(candidate))

\* the largest frequency and the longest text the arithmetic is gone through for
MaxFreq == 12

MaxTextLength == 250

\* frequency, words of the candidate and words of the text with which the
\* density-penalty step is reached
PenaltySteps ==
    {fwn \in (1..MaxFreq) \X (1..3) \X (1..MaxTextLength) :
        /\ fwn[1] * fwn[2] <= fwn[3]
        /\ fwn[1] >= MinFreqThreshold(fwn[3])
        /\ ~DensityTooHigh(fwn[1], fwn[2], fwn[3])}

\* C23 as stated: on some input a candidate that reaches the density-penalty
\* step gets a negative density penalty and so a negative final score
SomePenaltyIsNegative ==
    CallReturned("score_keywords") =>
        \/ \E fwn \in PenaltySteps : DensityPenalty(fwn[1], fwn[2], fwn[3]) < 0
        \/ \E c \in ScoreKeywordsCalls : \E i \in 1..Len(c.candidates) :
               /\ ReachesPenalty(c, c.candidates[i])
               /\ PenaltyIn(c, c.candidates[i]) < 0
               /\ FinalScoreIn(c, c.candidates[i]) < 0

\* C23: a candidate that reaches the density-penalty step has a density of at
\* most 5%, so its penalty lies between 0.85 and 1.0 and its final score is
\* positive; no score returned is negative
PenaltyIsAtLeast085 ==
    CallReturned("score_keywords") =>
        /\ \A fwn \in PenaltySteps :
               /\ 2 * DensityPenalty(fwn[1], fwn[2], fwn[3]) >= 17 * fwn[3]
               /\ DensityPenalty(fwn[1], fwn[2], fwn[3]) <= 10 * fwn[3]
        /\ \A i \in 1..Len(call.candidates) :
               ReachesPenalty(call, call.candidates[i]) =>
                   /\ 2 * PenaltyIn(call, call.candidates[i]) >= 17 * WordCount(call.text)
                   /\ PenaltyIn(call, call.candidates[i]) <= 10 * WordCount(call.text)
                   /\ FinalScoreIn(call, call.candidates[i]) > 0
        /\ \A k \in 1..Len(ret.value) : ret.value[k].score >= 50

\* a phrase at a density of exactly 5% was scored with the penalty of 0.85
PenaltyOf085Applied ==
    /\ CallReturned("score_keywords")
    /\ \E k \in 1..Len(ret.value) :
           /\ ret.value[k].density = 500
           /\ 2 * PenaltyIn(call, ret.value[k].text) = 17 * WordCount(call.text)

\* the runs of one, two or three adjacent tokens, joined by single spaces
RunsOf(tokens) ==
    UNION {{Join(" ", SubSeq(tokens, i, i + n)) : i \in 1..(Len(tokens) - n)} :
              n \in 0..2}

\* how many of the words are common function words
CommonAmong(words) ==
    Cardinality({i \in 1..Len(words) :
        words[i] \in {"the", "a", "an", "and", "or", "but", "in", "on", "at", "to",
                      "for", "of", "with", "by"}})

\* what a candidate has to be
GoodCandidate(c) ==
    /\ Len(Split(c)) \in 1..3
    /\ Len(c) >= 3
    /\ Len(c) <= 50
    /\ \A i \in 1..Len(c) : CharAt(c, i) = " " \/ IsAlpha(CharAt(c, i))
    /\ Lower(c) \notin stop_phrases
    /\ Len(Split(c)) = 1 => Lower(c) \notin low_value_words
    /\ Len(Split(c)) >= 2 => CommonAmong(Split(Lower(c))) < Len(Split(c))
    /\ Len(Split(c)) >= 3 => CommonAmong(Split(Lower(c))) * 10 < Len(Split(c)) * 6

\* C24: every candidate of generate_candidates is a run of one, two or three
\* adjacent tokens, 3 to 50 characters long, alphabetic but for its spaces, no
\* stop phrase, no low-value single word, not made of common function words only
\* and of fewer than 60% of them when of three words; no candidate comes twice,
\* and a result is given for texts of zero, one or two tokens as well
CandidatesAreGoodNgrams ==
    CallReturned("generate_candidates") =>
        /\ \A i \in 1..Len(ret.value) :
               /\ ret.value[i] \in RunsOf(tokenize_phrase(call.text.s))
               /\ GoodCandidate(ret.value[i])
        /\ \A i, j \in 1..Len(ret.value) : ret.value[i] = ret.value[j] => i = j
        /\ Len(tokenize_phrase(call.text.s)) = 0 => ret.value = <<>>

\* the dropped n-grams of the call
DroppedNgrams == RunsOf(tokenize_phrase(call.text.s)) \ Range(ret.value)

\* a text with a repeated token: a stop phrase and a low-value word were dropped
\* and other n-grams kept
StopPhraseAndLowValueWordDropped ==
    /\ CallReturned("generate_candidates")
    /\ ret.value # <<>>
    /\ Cardinality(Range(tokenize_phrase(call.text.s))) < Len(tokenize_phrase(call.text.s))
    /\ \E c \in DroppedNgrams : Lower(c) \in stop_phrases
    /\ \E c \in DroppedNgrams : c \in low_value_words

\* C25: should_be_child is true exactly when the two token sets share a token;
\* it is false when either set is empty
ChildExactlyWhenTokensShared ==
    CallReturned("should_be_child") =>
        /\ ret.value <=> (\E t \in call.parent_tokens : t \in call.child_tokens)
        /\ (call.parent_tokens = {} \/ call.child_tokens = {}) => ~ret.value

\* one shared token out of four, the parent no subset of the child: a child
\* although the similarity is 0.25
ChildBelowSimilarityThreshold ==
    /\ CallReturned("should_be_child")
    /\ ret.value
    /\ ~(call.parent_tokens \subseteq call.child_tokens)
    /\ Cardinality(call.parent_tokens \cap call.child_tokens) = 1
    /\ Cardinality(call.parent_tokens \cup call.child_tokens) = 4

\* the keywords the parent is chosen among: the seeded ones if there are any
ChosenPool == IF SeededKeywords # {} THEN SeededKeywords ELSE FitKeywords

\* the keywords of S that none of S outranks
TopBy(S, rank) == {i \in S : \A j \in S : ~FLess(rank[i], rank[j])}

\* the keywords of the chosen pool that none of the pool outranks
TopRanked == TopBy(ChosenPool, [i \in ChosenPool |-> RankOfKeyword(i)])

\* the value returned is the keyword at the first of the indexes top, which is of
\* 2 tokens at least
FirstOfTopReturned(top) ==
    /\ MultiWord(TokensOfKeyword(Min(top)))
    /\ ret.value = call.scored_keywords[Min(top)]

\* C26: choose_parent_keyword returns None exactly when no keyword of the list is
\* eligible; otherwise the best-ranked keyword of the chosen pool has at least 2
\* tokens, so that the final single-word guard is not taken, and the value returned
\* is the keyword of the list that comes first among those of the highest rank in
\* the chosen pool.
EarliestOfTheTopRanked ==
    CallReturned("choose_parent_keyword") =>
        /\ (ret.value = None) <=> (FitKeywords = {})
        /\ FitKeywords # {} => FirstOfTopReturned(TopRanked)

\* the first of several keywords on top is returned, another is not
SeveralOnTop(top) ==
    /\ Cardinality(top) >= 2
    /\ ret.value = call.scored_keywords[Min(top)]
    /\ \E j \in top : ret.value # call.scored_keywords[j]

\* a parent returned from a pool where a later keyword has the same rank
TiedParentsFirstReturned ==
    /\ CallReturned("choose_parent_keyword")
    /\ FitKeywords # {}
    /\ SeveralOnTop(TopRanked)

\* the URL tokens of the call hold a boilerplate-section term
UrlIsBoilerplate == \E bt \in SECTION_TERMS : Contains(call.url_tokens, bt)

\* the rank of keyword i before the URL penalty: the weighted sum times the
\* keyword's own boilerplate penalty
RankBeforeUrlPenalty(i) ==
    FMul(WeightedSum(call.scored_keywords[i], TokensOfKeyword(i), call.title,
                     call.h1_h2_text, call.url_tokens),
         boilerplate_penalty(call.scored_keywords[i].text, TokensOfKeyword(i)))

\* the factor of the URL penalty of the call
UrlPenaltyOfCall == IF UrlIsBoilerplate THEN Literal(80) ELSE Literal(100)

\* the ranks of the chosen pool before the URL penalty
RanksBeforeUrlPenalty == [i \in ChosenPool |-> RankBeforeUrlPenalty(i)]

\* the ranks with the URL penalty left out, from the ranks before it
WithoutUrlPenalty(before) ==
    [i \in DOMAIN before |-> FMul(before[i], topical_boost(TokensOfKeyword(i)))]

\* the ranks with the one URL penalty of the call, from the ranks before it
WithUrlPenalty(before) ==
    [i \in DOMAIN before |->
        FMul(FMul(before[i], UrlPenaltyOfCall), topical_boost(TokensOfKeyword(i)))]

SameFloat(x, y) == ~FLess(x, y) /\ ~FLess(y, x)

\* the first keyword that none outranks
FirstOnTop(rank) == Min(TopBy(DOMAIN rank, rank))

\* the first keyword of the chosen pool that none outranks with the URL penalty
\* left out
ParentWithoutUrlPenalty == FirstOnTop(WithoutUrlPenalty(RanksBeforeUrlPenalty))

OnePlusRounding == FAdd(Literal(100), [m |-> NatOf(1), e |-> -50])

\* y is above x by less than one part in 2^50
WithinRounding(x, y) == FLess(x, y) /\ ~FLess(FMul(x, OnePlusRounding), y)

\* the parent returned is keyword p, or a keyword before p of a rank without the
\* penalty within rounding below that of p, and of the same rank with it
SameParentUpToRounding(without, with, p) ==
    \/ ret.value = call.scored_keywords[p]
    \/ \E i \in DOMAIN without :
          /\ i < p
          /\ ret.value = call.scored_keywords[i]
          /\ UrlIsBoilerplate
          /\ WithinRounding(without[i], without[p])
          /\ SameFloat(with[i], with[p])

\* the ranks of the call are the ranks with, and the parent is as without
PenaltyIsOneForAll(without, with) ==
    /\ \A i \in DOMAIN with : SameFloat(RankOfKeyword(i), with[i])
    /\ SameParentUpToRounding(without, with, FirstOnTop(without))

HitOutranks(without, with) ==
    \E i, j \in DOMAIN without :
        /\ FLess(without[i], without[j])
        /\ FLess(with[i], with[j])
        /\ in_text(call.scored_keywords[j].text, call.url_tokens)

FewWordsGiveNoKeyword ==
    (Returned /\ WordCount(all_text) < 40) =>
        /\ result.keywords = <<>>
        /\ result.parent = None

\* a result for a page of fewer than 40 words where score_keywords kept a keyword
\* and a candidate that occurs at least twice was over the density ceiling
RepeatedPhraseInFewWords ==
    /\ Returned
    /\ WordCount(all_text) < 40
    /\ scored # <<>>
    /\ \E c \in NotScored : Count(Lower(all_text.s), c) >= 2
    /\ validated_keywords = <<>>
    /\ result.keywords = <<>>

\* C29: the root of the returned tree carries the url argument, and the url field
\* of the result is final_url if that is not empty and url otherwise; the two
\* differ when final_url is not empty and differs from url.
RootIsUrlAndUrlFieldIsFinalUrl ==
    Returned =>
        /\ result.tree.text = url
        /\ result.url = (IF final_url # "" THEN final_url ELSE url)
        /\ (final_url # "" /\ final_url # url) => result.tree.text # result.url

\* a result with a parent, for a final_url that is not empty and differs from
\* url: the root of the tree and the url field differ
RootAndUrlFieldDiffer ==
    /\ Returned
    /\ result.parent # None
    /\ final_url # ""
    /\ final_url # url
    /\ result.tree.text = url
    /\ result.url = final_url

\* the dicts of the children of the parent node in the returned tree
SubParentsInTree == result.tree.children[1].children

\* the texts of the nodes below the sub-parents of the returned tree
LeafTexts ==
    UNION {{SubParentsInTree[i].children[j].text :
               j \in 1..Len(SubParentsInTree[i].children)} :
           i \in 1..Len(SubParentsInTree)}

\* the shared tokens of the parent and of text over all their tokens, in 1/1000
\* rounded to the nearest
SimilarityToParent(text) ==
    LET a == Range(tokenize_phrase(result.parent.text))
        b == Range(tokenize_phrase(text))
    IN IF a = {} \/ b = {} THEN 0
       ELSE (2000 * Cardinality(a \cap b) + Cardinality(a \cup b))
                \div (2 * Cardinality(a \cup b))

\* C30: when the parent is not null, the children list of the result has one
\* entry for each child of the parent node of the tree, in the same order, with
\* its text and score, freq 0 and the Jaccard similarity of the parent's tokens and
\* the sub-parent's; no leaf of the tree and not the parent is in the list.
ChildrenAreTheSubParents ==
    (Returned /\ result.parent # None) =>
        /\ result.tree.children[1].text = result.parent.text
        /\ Len(result.children) = Len(SubParentsInTree)
        /\ \A i \in 1..Len(result.children) :
              /\ result.children[i].text = SubParentsInTree[i].text
              /\ result.children[i].score = SubParentsInTree[i].score
              /\ result.children[i].freq = 0
              /\ result.children[i].similarity =
                     SimilarityToParent(SubParentsInTree[i].text)
              /\ result.children[i].text \notin LeafTexts \cup {result.parent.text}

\* a result with several children, one of them sharing some tokens with the
\* parent and not all, over a tree with a leaf
ChildrenOverATreeWithLeaves ==
    /\ Returned
    /\ result.parent # None
    /\ Len(result.children) >= 2
    /\ LeafTexts # {}
    /\ \E i \in 1..Len(result.children) :
          /\ result.children[i].similarity > 0
          /\ result.children[i].similarity < 1000
    /\ \E i \in 1..Len(result.children) : result.children[i].similarity = 0

============================================================================
